---- MODULE Spec2Model ----
(***************************************************************************)
(* A model of asar_xarray.envisat_direct.parse_direct: the descriptor      *)
(* table reader, the record decoders, the calibration LUT loader and the   *)
(* calibration vector builder.                                             *)
(*                                                                         *)
(* Representation of the data the code reads:                              *)
(*  - a byte buffer is addressed by byte offset; the model keeps the       *)
(*    offsets and sizes of the code and gives the decoded field found at   *)
(*    an offset (GeoValueAt, AuxF32At, SliceAt);                           *)
(*  - a float that the code scales by a power of ten is a record           *)
(*    [mant, exp] standing for mant * 10^exp;                              *)
(*  - angles are integers in 1/100 degree, distances integers in model     *)
(*    units, a linear gain 10^(dB/10) is kept as its exponent dB.          *)
(***************************************************************************)
EXTENDS Integers, Sequences, FiniteSets, TLC

(* ------------------------------------------------------------------ *)
(* Bounds                                                              *)
(* ------------------------------------------------------------------ *)

\* largest number of samples per line (gdal_metadata["line_length"])
MaxSamp == 2

(* ------------------------------------------------------------------ *)
(* Program constants                                                   *)
(* ------------------------------------------------------------------ *)

sph_marker_offset == 1104
dsd_size == 280
dsd_num == 18
rec_size == 521
header_size == 12 + 1 + 4 + 4 + 4
block_size == 11 * 4
gain_table_len == 201
lut_centre == 100
\* 0.05 degree, in 1/100 degree
lut_step == 5
\* bytes 13..40 of the SR/GR buffer are unpacked as seven floats
srgr_first == 13
srgr_last == 41

Abs(x) == IF x < 0 THEN -x ELSE x

Min(a, b) == IF a < b THEN a ELSE b

\* Python's int(): the quotient truncated towards zero
TruncDiv(a, b) == IF a >= 0 THEN a \div b ELSE -((-a) \div b)

\* Python's round(): the quotient rounded to the nearest integer, ties to even
RoundDiv(a, b) ==
    LET fl == a \div b
        rem == a % b
    IN  IF 2 * rem < b THEN fl
        ELSE IF 2 * rem > b THEN fl + 1
        ELSE IF fl % 2 = 0 THEN fl ELSE fl + 1

(* ------------------------------------------------------------------ *)
(* The product file                                                    *)
(* ------------------------------------------------------------------ *)

\* One KEY=value line of a 280-byte descriptor slice.
NumLine(key, n, unit) == [key |-> key, sign |-> 1, digits |-> n, unit |-> unit]

TextLine(key, text, pad) == [key |-> key, text |-> text, pad |-> pad]

\* The lines of a descriptor slice, in the order the format writes them.
DsdSlice(name, filename, pad, offset, size, num) ==
    << TextLine("DS_NAME", name, 28 - Len(name)),
       TextLine("DS_TYPE", "A", 0),
       TextLine("FILENAME", filename, pad),
       NumLine("DS_OFFSET", offset, "<bytes>"),
       NumLine("DS_SIZE", size, "<bytes>"),
       NumLine("NUM_DSR", num, ""),
       NumLine("DSR_SIZE", IF num = 0 THEN 0 ELSE size \div num, "<bytes>") >>

AuxName == "ASA_XCA_AXVIEC20070517"

OtherAuxName == "ASA_XCA_AXVIEC19990101"

\* byte offsets of the datasets of the modelled products
DatasetOffsets == [geo |-> 10000, srgr |-> 9000, cal |-> 0, filler |-> 20000]

\* The names of the 18 descriptors of an image-mode product, in file order.
StdNames ==
    << "MDS1 SQ ADS", "MDS2 SQ ADS", "MAIN PROCESSING PARAMS ADS",
       "DOP CENTROID COEFFS ADS", "SR GR ADS", "CHIRP PARAMS ADS",
       "MDS1 ANTENNA ELEV PATT ADS", "MDS2 ANTENNA ELEV PATT ADS",
       "GEOLOCATION GRID ADS", "MAP PROJECTION GADS", "MDS1", "MDS2",
       "LEVEL 0 PRODUCT", "ASAR PROCESSOR CONFIG", "INSTRUMENT CHARACTERIZATION",
       "EXTERNAL CHARACTERIZATION", "EXTERNAL CALIBRATION", "ORBIT STATE VECTOR 1" >>

\* The same descriptors in another file order.
AltNames ==
    << "EXTERNAL CALIBRATION", "MDS1 SQ ADS", "MDS2 SQ ADS",
       "MAIN PROCESSING PARAMS ADS", "GEOLOCATION GRID ADS",
       "DOP CENTROID COEFFS ADS", "CHIRP PARAMS ADS",
       "MDS1 ANTENNA ELEV PATT ADS", "MDS2 ANTENNA ELEV PATT ADS",
       "MAP PROJECTION GADS", "MDS1", "MDS2",
       "LEVEL 0 PRODUCT", "ASAR PROCESSOR CONFIG", "INSTRUMENT CHARACTERIZATION",
       "EXTERNAL CHARACTERIZATION", "ORBIT STATE VECTOR 1", "SR GR ADS" >>

Layouts == [std |-> StdNames, alt |-> AltNames]

\* The descriptor written at table position k (1-based) of product p.
DsdOf(p, k) ==
    LET name == Layouts[p.layout][k]
    IN  IF name = "GEOLOCATION GRID ADS"
        THEN IF p.geo.present
             THEN DsdSlice(name, "", 62, DatasetOffsets.geo, p.geo.size, p.geo.num)
             ELSE DsdSlice("SPARE", "", 62, 0, 0, 0)
        ELSE IF name = "EXTERNAL CALIBRATION"
        THEN IF p.cal.present
             THEN DsdSlice(name, p.cal.filename, p.cal.pad, DatasetOffsets.cal, 0, 0)
             ELSE DsdSlice("SPARE", "", 62, 0, 0, 0)
        ELSE IF name = "SR GR ADS"
        THEN IF p.srgr.present
             THEN DsdSlice(name, "", 62, DatasetOffsets.srgr, p.srgr.size, p.srgr.num)
             ELSE DsdSlice("SPARE", "", 62, 0, 0, 0)
        ELSE DsdSlice(name, "", 62, DatasetOffsets.filler + k * 1000, 1000, 1)

\* The byte offset, in the specific header of product p, of its descriptor
\* table: the table is the last 18 slices of 280 bytes.
TableStart(p) == p.sph_size - 18 * 280

\* sph_buf[start : start + 280] decoded as text lines; a slice that does not
\* start on a descriptor of the table is not a descriptor text.
SliceAt(p, start) ==
    LET rel == start - TableStart(p)
    IN  IF rel >= 0 /\ rel % 280 = 0 /\ rel \div 280 < 18
        THEN DsdOf(p, (rel \div 280) + 1)
        ELSE << >>

\* The tie-point record k (0-based) of the geolocation grid dataset.
GeoRecord(k) ==
    [ samp  |-> [j \in 1..11 |-> 1 + (j - 1) * 100],
      slant |-> [j \in 1..11 |-> (k + 1) + (j - 1)],
      angle |-> [j \in 1..11 |-> 1500 + 100 * k + 10 * j],
      lats  |-> [j \in 1..11 |-> IF k = 1 THEN 90000000 - j ELSE k * 1000000 + j],
      lons  |-> [j \in 1..11 |-> (k + 1) * 1000 + j] ]

\* Which field of a geolocation record the byte at record-relative offset f
\* belongs to, and the index of the value in that field.
GeoField(f) ==
    LET b == (f - header_size) \div block_size
        j == ((f - header_size) % block_size) \div 4 + 1
    IN  [name |-> CASE b = 0 -> "samp" [] b = 1 -> "slant" [] b = 2 -> "angle"
                    [] b = 3 -> "lats" [] OTHER -> "lons",
         j |-> j]

\* The big-endian 32-bit value stored at absolute byte offset abs of the file
\* (a field of the geolocation grid dataset).
GeoValueAt(abs) ==
    LET rel == abs - DatasetOffsets.geo
        fld == GeoField(rel % rec_size)
    IN  GeoRecord(rel \div rec_size)[fld.name][fld.j]

\* The five SR/GR coefficients and the two header floats of the first record.
SrGrRecord == [slant_range_time |-> 5500, ground_range_origin |-> 0,
               coeffs |-> << 800, 3, 2, 1, 0 >>]

\* struct.unpack(">ff5f", srgr_buf[13:41]) on the SR/GR dataset of the file.
SrGrFloats == << SrGrRecord.slant_range_time, SrGrRecord.ground_range_origin >>
              \o SrGrRecord.coeffs

\* Record k (0-based) of the SR/GR dataset: 55 bytes, a 12-byte time, a flag
\* byte, the two reference floats and the five coefficients.
SrGrRecordAt(k) ==
    IF k = 0
    THEN [zero_doppler_time |-> << 1500, 0, 0 >>,
          slant_range_time |-> SrGrRecord.slant_range_time,
          ground_range_origin |-> SrGrRecord.ground_range_origin,
          coeffs |-> SrGrRecord.coeffs]
    ELSE [zero_doppler_time |-> << 1500, 10 * k, 0 >>,
          slant_range_time |-> SrGrRecord.slant_range_time + k,
          ground_range_origin |-> SrGrRecord.ground_range_origin,
          coeffs |-> << 800 + k, 3, 2, 1, 0 >>]

(* ------------------------------------------------------------------ *)
(* The auxiliary calibration file                                      *)
(* ------------------------------------------------------------------ *)

\* Byte offset of the seven reference elevation angles in the auxiliary file.
aux_angles_offset == 1247 + 378 + 12 + 4 + (26 * 28 + 4 * 4)

\* Byte offset of the first antenna-gain block.
aux_gains_offset == aux_angles_offset + 8 * 4

\* The gain in dB stored for swath index s, polarization index q, entry k
\* (all 0-based) of an auxiliary file.
AuxGainDb(s, q, k) == 3 * (((k + s + 2 * q) % 3) - 1)

\* The reference elevation angle stored for swath index s, in 1/100 degree,
\* in an auxiliary file whose angle for swath index 1 is ref.
AuxMidAngle(ref, s) == ref + 400 * (s - 1)

\* The big-endian float stored at byte offset off of the auxiliary file.
AuxF32At(ref, off) ==
    IF off < aux_gains_offset
    THEN AuxMidAngle(ref, (off - aux_angles_offset) \div 4)
    ELSE LET rel == off - aux_gains_offset
         IN  AuxGainDb(rel \div (804 * 4), (rel % (804 * 4)) \div (201 * 4),
                       (rel % (201 * 4)) \div 4)

(* ------------------------------------------------------------------ *)
(* Descriptor table reader                                             *)
(* ------------------------------------------------------------------ *)

\* parse_int: the text after "=", without "<bytes>", as an integer.
parse_int(line) == line.sign * line.digits

\* FILENAME="<text><pad spaces>" with the prefix and one ' "' removed: the
\* text, the spaces left behind it, and whether the closing quote is left.
ParseFilename(line) ==
    [text |-> line.text,
     trail |-> IF line.pad >= 1 THEN line.pad - 1 ELSE 0,
     quote |-> line.pad = 0]

\* The name of a directory entry, as a parsed filename compares to it.
EntryName(n) == [text |-> n, trail |-> 0, quote |-> FALSE]

\* a descriptor whose size and record count are taken from each other's line
EnvisatADS_swapped(lines) ==
    [name |-> lines[1].text,
     filename |-> ParseFilename(lines[3]),
     num |-> parse_int(lines[5]),
     size |-> parse_int(lines[6]),
     offset |-> parse_int(lines[4])]

\* EnvisatADS.__init__: the descriptor decoded from the lines of one slice.
\* The fields are taken by line position, not by key.
EnvisatADS(lines) ==
    [name |-> lines[1].text,
     filename |-> ParseFilename(lines[3]),
     num |-> parse_int(lines[6]),
     size |-> parse_int(lines[5]),
     offset |-> parse_int(lines[4])]

(* ------------------------------------------------------------------ *)
(* Record decoders                                                     *)
(* ------------------------------------------------------------------ *)

\* e * 1e-6
Micro(e) == [mant |-> e, exp |-> -6]

\* struct.unpack(">11i", buf[pos : pos + 44]) where buf starts at byte base.
Unpack11i(base, pos) == [j \in 1..11 |-> GeoValueAt(base + pos + 4 * (j - 1))]

NoError == "none"

\* the geolocation entries without the incidence angle
GeoMetadata_noangle(metadata, slant, incid) ==
    ("slant_time_first" :> slant) @@ metadata

\* metadata["slant_time_first"] = ...; metadata["incidence_angle_center"] = ...
GeoMetadata(metadata, slant, incid) ==
    ("slant_time_first" :> slant) @@ ("incidence_angle_center" :> incid) @@ metadata

\* __process_geolocation_grid_ads: for a GEOLOCATION GRID ADS descriptor the
\* tie-point latitudes and longitudes, the first slant time and the two
\* metadata entries; for any other descriptor empty lists and 0.0.
process_geolocation_grid_ads(ads, metadata) ==
    IF ads.name = "GEOLOCATION GRID ADS"
    THEN IF ads.num = 0
         THEN [err |-> "ZeroDivisionError", lats |-> << >>, lons |-> << >>,
               slant_time_first |-> 0, metadata |-> metadata]
         ELSE IF (ads.size \div ads.num) # rec_size
         THEN [err |-> "AssertionError", lats |-> << >>, lons |-> << >>,
               slant_time_first |-> 0, metadata |-> metadata]
         ELSE LET geoloc_buf == ads.offset
                  middle_idx == ads.num \div 2
                  geoloc_record == geoloc_buf + middle_idx * rec_size
                  lats_raw == Unpack11i(geoloc_buf, header_size + 11 * 4 * 3)
                  lons_raw == Unpack11i(geoloc_buf, header_size + 11 * 4 * 4)
                  slant_time_offset == header_size + 1 * block_size
                  incidence_angle_offset == header_size + 2 * block_size + 5 * 4
                  slant == GeoValueAt(geoloc_record + slant_time_offset)
                  incid == GeoValueAt(geoloc_record + incidence_angle_offset)
              IN  [err |-> NoError,
                   lats |-> [j \in 1..11 |-> Micro(lats_raw[j])],
                   lons |-> [j \in 1..11 |-> Micro(lons_raw[j])],
                   slant_time_first |-> slant,
                   metadata |-> GeoMetadata(metadata, slant, incid)]
    ELSE [err |-> NoError, lats |-> << >>, lons |-> << >>,
          slant_time_first |-> 0, metadata |-> metadata]

\* ord(swath[2]) - ord("1")
SwathOffset(swath) ==
    CASE swath = "IS1" -> 0 [] swath = "IS2" -> 1 [] swath = "IS3" -> 2
      [] swath = "IS4" -> 3 [] swath = "IS5" -> 4 [] swath = "IS6" -> 5
      [] OTHER -> 6

PolOffsets == [hh |-> 0, vv |-> 1, hv |-> 2, vh |-> 3]

PolKey(polarization) ==
    CASE polarization = "H/H" -> "hh" [] polarization = "V/V" -> "vv"
      [] polarization = "H/V" -> "hv" [] polarization = "V/H" -> "vh"
      [] OTHER -> "none"

\* gain blocks laid 200 floats apart
GainBlockStart_packed(swath_offset, pol_offset) ==
    aux_gains_offset + 800 * 4 * swath_offset + 200 * 4 * pol_offset

\* offset += 804 * 4 * swath_offset; offset += 201 * 4 * pol_offset
GainBlockStart(swath_offset, pol_offset) ==
    aux_gains_offset + 804 * 4 * swath_offset + 201 * 4 * pol_offset

\* __process_cal_ads: for an EXTERNAL CALIBRATION descriptor whose filename is
\* the name of an entry of the auxiliary directory, the 201 gains of the
\* swath and polarization and the reference elevation angle in the metadata;
\* otherwise the empty tuple.
process_cal_ads(ads, gdal_metadata, metadata, polarization, aux) ==
    IF ads.name = "EXTERNAL CALIBRATION"
       /\ \E n \in aux.names : ads.filename = EntryName(n)
    THEN IF PolKey(polarization) \notin DOMAIN PolOffsets
         THEN [err |-> "KeyError", antenna_gains |-> << >>, metadata |-> metadata]
         ELSE LET swath_offset == SwathOffset(gdal_metadata.swath)
                  pol_offset == PolOffsets[PolKey(polarization)]
                  offset == GainBlockStart(swath_offset, pol_offset)
              IN  [err |-> NoError,
                   antenna_gains |->
                       [k \in 1..gain_table_len |->
                           AuxF32At(aux.ref, offset + 4 * (k - 1))],
                   metadata |->
                       ("antenna_ref_elev_angle" :>
                           AuxF32At(aux.ref, aux_angles_offset + 4 * swath_offset))
                       @@ metadata]
    ELSE [err |-> NoError, antenna_gains |-> << >>, metadata |-> metadata]

\* an unpack that accepts any buffer reaching byte 13
SrGrUnpackError_lenient(size) ==
    IF Min(size, srgr_last) - srgr_first < 0 THEN "struct.error" ELSE NoError

\* struct.unpack(">ff5f", srgr_buf[13:41]) needs 28 bytes of the size bytes
\* of the buffer: the exception raised.
SrGrUnpackError(size) ==
    IF Min(size, srgr_last) - srgr_first < 28 THEN "struct.error" ELSE NoError

\* process_sr_gr_ads: for an SR GR ADS descriptor of size > 0 the last five
\* of the seven floats at bytes 13..40 of the dataset go to the metadata.
process_sr_gr_ads(ads, metadata) ==
    IF ads.name = "SR GR ADS" /\ ads.size > 0
    THEN IF SrGrUnpackError(ads.size) # NoError
         THEN [err |-> SrGrUnpackError(ads.size), metadata |-> metadata]
         ELSE [err |-> NoError,
               metadata |-> ("grsr_coeffs" :> SubSeq(SrGrFloats, 3, 7)) @@ metadata]
    ELSE [err |-> NoError, metadata |-> metadata]

(* ------------------------------------------------------------------ *)
(* Geometry engine                                                     *)
(* ------------------------------------------------------------------ *)

\* The speed of light in model distance units per nanosecond (c * 1e-9).
c == 6

\* WGS84 semi-major and semi-minor axis in model distance units.
wgs84_a == 4
wgs84_b == 3

\* The value of a scaled number in whole degrees.
Degrees(v) == IF v.exp = -6 THEN v.mant \div 1000000 ELSE v.mant

\* __calc_distance at altitude 0: the distance from the Earth's centre to the
\* ellipsoid at a latitude; it does not depend on the longitude. The ellipsoid
\* is quantised to its two axes.
calc_distance(latitude, longitude) ==
    IF (Abs(Degrees(latitude)) % 180) \in 45..135 THEN wgs84_b ELSE wgs84_a

\* math.sqrt, rounded down to an integer
Isqrt(x) == CHOOSE k \in 0..x : k * k <= x /\ (k + 1) * (k + 1) > x

\* degrees(acos(num / den)) in 1/100 degree, for -1 <= num/den <= 1; the
\* cosine is quantised down to a multiple of 1/4.
AcosTable == [q \in -4..4 |->
    CASE q = 4 -> 0 [] q = 3 -> 4141 [] q = 2 -> 6000 [] q = 1 -> 7552
      [] q = 0 -> 9000 [] q = -1 -> 10448 [] q = -2 -> 12000
      [] q = -3 -> 13859 [] OTHER -> 18000]

AcosCentiDeg(num, den) == AcosTable[(4 * num) \div den]

(* ------------------------------------------------------------------ *)
(* Calibration factors                                                 *)
(* ------------------------------------------------------------------ *)

\* 1.0
One == [db |-> 0, num |-> 1, den |-> 1, pow |-> 0]

Gcd(a, b) == CHOOSE g \in 1..Min(a, b) :
    /\ a % g = 0 /\ b % g = 0
    /\ \A h \in 1..Min(a, b) : (a % h = 0 /\ b % h = 0) => h <= g

\* 1 / math.pow(range_ref / r, power), as the ratio (r / range_ref) ^ power
InvSpread(range_ref, r, power) ==
    IF r = range_ref THEN One
    ELSE [db |-> 0, num |-> r \div Gcd(r, range_ref),
          den |-> range_ref \div Gcd(r, range_ref), pow |-> power]

\* 1 / gain for gain = 10^(gain_db / 10)
InvGain(gain_db) == [db |-> -gain_db, num |-> 1, den |-> 1, pow |-> 0]

\* the product of a spreading-loss factor and a de-gain factor
Times(spread, degain) == [spread EXCEPT !.db = spread.db + degain.db]

(* ------------------------------------------------------------------ *)
(* Inputs of parse_direct                                              *)
(* ------------------------------------------------------------------ *)

\* The main header (where "SPH_SIZE" is found, -1: nowhere), the size of the
\* specific header and the file order of the descriptors.
HeaderVariants ==
    { [mph_index |-> 1104, sph_size |-> 6099, layout |-> "std"],
      [mph_index |-> 1104, sph_size |-> 5320, layout |-> "alt"],
      [mph_index |-> -1,   sph_size |-> 6099, layout |-> "std"],
      [mph_index |-> 1100, sph_size |-> 6099, layout |-> "std"] }

\* The GEOLOCATION GRID ADS descriptor: absent from the table, or present
\* with a byte size and a record count.
GeoVariants ==
    { [present |-> FALSE, size |-> 0, num |-> 0],
      [present |-> TRUE, size |-> 0, num |-> 0],
      [present |-> TRUE, size |-> 521, num |-> 1],
      [present |-> TRUE, size |-> 1042, num |-> 2],
      [present |-> TRUE, size |-> 1563, num |-> 3],
      [present |-> TRUE, size |-> 522, num |-> 1],
      [present |-> TRUE, size |-> 1043, num |-> 2] }

\* The SR GR ADS descriptor.
SrGrVariants ==
    { [present |-> TRUE, size |-> 0, num |-> 0],
      [present |-> TRUE, size |-> 55, num |-> 1],
      [present |-> TRUE, size |-> 110, num |-> 2],
      [present |-> TRUE, size |-> 30, num |-> 1] }

\* Reference elevation angles of the auxiliary file, in 1/100 degree.
RefAngles == {6505, 6503, 5997, 5500, 5495, 5490}

\* The EXTERNAL CALIBRATION descriptor and the auxiliary directory.
CalVariants ==
    { [present |-> TRUE, filename |-> AuxName, pad |-> 1, ref |-> a] : a \in RefAngles }
    \cup
    { [present |-> TRUE, filename |-> OtherAuxName, pad |-> 1, ref |-> 6000],
      [present |-> TRUE, filename |-> AuxName, pad |-> 2, ref |-> 6000],
      [present |-> FALSE, filename |-> "", pad |-> 62, ref |-> 6000] }

\* Range sampling rate, reference range and the orbit state vectors.
GeometryVariants ==
    { [range_samp_rate |-> 1, range_ref |-> 3,
       osv |-> << [x_pos_1 |-> 0, y_pos_1 |-> 0, z_pos_1 |-> 500],
                  [x_pos_1 |-> 100, y_pos_1 |-> 0, z_pos_1 |-> 500] >>],
      [range_samp_rate |-> 3, range_ref |-> 6,
       osv |-> << [x_pos_1 |-> 300, y_pos_1 |-> 400, z_pos_1 |-> 0],
                  [x_pos_1 |-> 300, y_pos_1 |-> 400, z_pos_1 |-> 100] >>],
      [range_samp_rate |-> 1, range_ref |-> 3,
       osv |-> << [x_pos_1 |-> 0, y_pos_1 |-> 0, z_pos_1 |-> 900],
                  [x_pos_1 |-> 0, y_pos_1 |-> 0, z_pos_1 |-> 500] >>] }

\* The product name and the polarization the caller selected.
ModeVariants ==
    { [product |-> "ASA_IMS_1PNESA20040109.N1", polarization_idx |-> 0,
       polarization |-> "H/H"],
      [product |-> "ASA_APS_1PNESA20040109.N1", polarization_idx |-> 1,
       polarization |-> "V/V"],
      [product |-> "ASA_APS_1PNESA20040109.N1", polarization_idx |-> 0,
       polarization |-> "H/H"] }

\* The attributes MAIN_PROCESSING_PARAMS_ADS_CALIBRATION_FACTORS.<idx>.<PARAM>
\* of the raster reader: index 1 is the record of MDS1, index 2 that of MDS2.
GdalCalibrationKeys ==
    { [idx |-> 2, param |-> "ext_cal_fact", value |-> 99],
      [idx |-> 2, param |-> "proc_scaling_fact", value |-> 1],
      [idx |-> 1, param |-> "ext_cal_fact", value |-> 77],
      [idx |-> 1, param |-> "proc_scaling_fact", value |-> 1] }

\* The record of index idx: 'index' and one entry per parameter, lowercase.
CalibRecord(keys, idx) ==
    [f \in {"index"} \cup { k.param : k \in { x \in keys : x.idx = idx } } |->
        IF f = "index" THEN idx
        ELSE (CHOOSE k \in keys : k.idx = idx /\ k.param = f).value]

\* the records in descending order of index
process_calibration_factors_descending(keys) ==
    LET idxs == { k.idx : k \in keys }
        order == CHOOSE s \in [1..Cardinality(idxs) -> idxs] :
                     \A a, b \in DOMAIN s : a < b => s[a] > s[b]
    IN  [j \in DOMAIN order |-> CalibRecord(keys, order[j])]

\* process_calibration_factors: the records in ascending order of index.
process_calibration_factors(keys) ==
    LET idxs == { k.idx : k \in keys }
        order == CHOOSE s \in [1..Cardinality(idxs) -> idxs] :
                     \A a, b \in DOMAIN s : a < b => s[a] < s[b]
    IN  [j \in DOMAIN order |-> CalibRecord(keys, order[j])]

CalibrationFactors == process_calibration_factors(GdalCalibrationKeys)

\* "APS" in product
IsAPS(product) == product = "ASA_APS_1PNESA20040109.N1"

(* ------------------------------------------------------------------ *)
(* State                                                               *)
(* ------------------------------------------------------------------ *)

VARIABLES
    file,             \* the product file: header, descriptor and dataset variants
    aux,              \* the auxiliary directory: names of its entries, file content
    gdal_metadata,    \* the attributes decoded by the raster reader
    polarization,     \* the polarization argument
    pc,               \* position in parse_direct
    dsd_start,        \* byte offset of dsd_buf in the specific header
    i,                \* loop index of __process_ads
    ads_seen,         \* the descriptors decoded so far, in loop order
    metadata,         \* the metadata dictionary being filled
    lats, lons,       \* tie-point latitudes and longitudes
    slant_time_first,
    antenna_gains,
    n,                \* sample index of the running loop
    gain_list,        \* de-gain factors of the samples done
    spreading_loss,   \* spreading-loss factors of the samples done
    lut_reads,        \* the LUT lookups made so far, one per sample reaching it
    err,              \* the exception that ended the call, or NoError
    result,           \* the returned dictionary, once returned
    call,             \* the function under study and its arguments
    returned          \* what the calls completed before this one returned

vars == << file, aux, gdal_metadata, polarization, pc, dsd_start, i, ads_seen,
           metadata, lats, lons, slant_time_first, antenna_gains, n, gain_list,
           spreading_loss, lut_reads, err, result, call, returned >>

inputs == << file, aux, gdal_metadata, polarization >>

\* the variables the steps of one parse_direct call leave alone
others == << call, returned >>

EmptyDict == << >>

Init ==
    /\ \E h \in HeaderVariants, g \in GeoVariants, s \in SrGrVariants,
          cv \in CalVariants :
          /\ file = [mph_index |-> h.mph_index, sph_size |-> h.sph_size,
                     layout |-> h.layout, geo |-> g, srgr |-> s,
                     cal |-> [present |-> cv.present, filename |-> cv.filename,
                              pad |-> cv.pad]]
          /\ aux = [names |-> {AuxName}, ref |-> cv.ref]
    /\ \E m \in ModeVariants, gv \in GeometryVariants,
          st \in {"DETECTED", "COMPLEX"}, len \in 1..MaxSamp :
          /\ gdal_metadata =
                [line_length |-> len, sample_type |-> st, product |-> m.product,
                 swath |-> "IS2", polarization_idx |-> m.polarization_idx,
                 range_samp_rate |-> gv.range_samp_rate,
                 range_ref |-> gv.range_ref, orbit_state_vectors |-> gv.osv,
                 calibration_factors |-> CalibrationFactors]
          /\ polarization = m.polarization
    /\ pc = "header"
    /\ dsd_start = 0
    /\ i = 0
    /\ ads_seen = << >>
    /\ metadata = EmptyDict
    /\ lats = << >>
    /\ lons = << >>
    /\ slant_time_first = 0
    /\ antenna_gains = << 0 >>
    /\ n = 0
    /\ gain_list = << >>
    /\ spreading_loss = << >>
    /\ lut_reads = << >>
    /\ err = NoError
    /\ result = EmptyDict
    /\ call = [fn |-> "parse_direct", nth |-> 1]
    /\ returned = << >>

(* ------------------------------------------------------------------ *)
(* parse_direct                                                        *)
(* ------------------------------------------------------------------ *)

\* The call ends in exception e; nothing is returned.
Raise(e) ==
    /\ pc' = "error"
    /\ err' = e

\* "SPH_SIZE=+0000006099", the 20 characters at the marker offset
SphSizeLine(f) == NumLine("SPH_SIZE", f.sph_size, "")

\* the start of dsd_buf in sph_buf: sph_size - dsd_size * dsd_num
DsdStart(sph_size) == sph_size - dsd_size * dsd_num

\* the marker search without the assertion on its place
HeaderError_noassert(f) == IF f.mph_index = -1 THEN "ValueError" ELSE NoError

\* mph_str.index("SPH_SIZE") and the assertion on it: the exception raised.
HeaderError(f) ==
    IF f.mph_index = -1 THEN "ValueError"
    ELSE IF f.mph_index # sph_marker_offset THEN "AssertionError"
    ELSE NoError

\* Lines 306-315: the main header is read, the place of the SPH_SIZE marker
\* is asserted and the descriptor table is cut from the specific header.
ReadHeader ==
    /\ pc = "header"
    /\ IF HeaderError(file) # NoError
       THEN Raise(HeaderError(file)) /\ UNCHANGED dsd_start
       ELSE /\ dsd_start' = DsdStart(parse_int(SphSizeLine(file)))
            /\ pc' = "ads"
            /\ UNCHANGED err
    /\ UNCHANGED << inputs, others, i, ads_seen, metadata, lats, lons, slant_time_first,
                    antenna_gains, n, gain_list, spreading_loss, lut_reads, result >>

\* the new value kept even when it is empty
OrElse_last(new, old, empty) == new

\* x_new if x_new else x
OrElse(new, old, empty) == IF new # empty THEN new ELSE old

\* One iteration of the loop of __process_ads: the descriptor of slice i is
\* decoded and handed to the three record decoders in turn.
ProcessAds ==
    /\ pc = "ads"
    /\ i < dsd_num
    /\ LET lines == SliceAt(file, dsd_start + i * dsd_size)
       IN  IF Len(lines) = 0
           THEN /\ Raise("ValueError")
                /\ UNCHANGED << i, ads_seen, metadata, lats, lons,
                                slant_time_first, antenna_gains >>
           ELSE LET ads == EnvisatADS(lines)
                    geo == process_geolocation_grid_ads(ads, metadata)
                    cal == process_cal_ads(ads, gdal_metadata, geo.metadata,
                                           polarization, aux)
                    srgr == process_sr_gr_ads(ads, cal.metadata)
                    e == IF geo.err # NoError THEN geo.err
                         ELSE IF cal.err # NoError THEN cal.err
                         ELSE srgr.err
                IN  IF e # NoError
                    THEN /\ Raise(e)
                         /\ UNCHANGED << i, ads_seen, metadata, lats, lons,
                                         slant_time_first, antenna_gains >>
                    ELSE /\ lats' = OrElse(geo.lats, lats, << >>)
                         /\ lons' = OrElse(geo.lons, lons, << >>)
                         /\ slant_time_first' =
                                OrElse(geo.slant_time_first, slant_time_first, 0)
                         /\ antenna_gains' =
                                OrElse(cal.antenna_gains, antenna_gains, << >>)
                         /\ metadata' = srgr.metadata
                         /\ ads_seen' = Append(ads_seen, ads)
                         /\ i' = i + 1
                         /\ pc' = IF i + 1 = dsd_num THEN "builder" ELSE "ads"
                         /\ UNCHANGED err
    /\ UNCHANGED << inputs, others, dsd_start, n, gain_list, spreading_loss, lut_reads,
                    result >>

\* c / (2 * range_samp_rate)
RangeSpacing(gdal) == c \div (2 * gdal.range_samp_rate)

\* c * slant_time_first * 1e-9 / 2
RFirst(slant) == (c * slant) \div 2

\* an array of ones that is one entry short
Ones_short(n_samp) == [k \in 1..(n_samp - 1) |-> One]

\* np.ones(n_samp)
Ones(n_samp) == [k \in 1..n_samp |-> One]

\* Lines 320-337: the sample type selects the branch. A detected product
\* gets all-ones gain and spreading-loss arrays.
SelectBranch ==
    /\ pc = "builder"
    /\ IF gdal_metadata.sample_type = "DETECTED"
       THEN /\ gain_list' = Ones(gdal_metadata.line_length)
            /\ spreading_loss' = Ones(gdal_metadata.line_length)
            /\ pc' = "finish"
            /\ UNCHANGED err
       ELSE IF gdal_metadata.range_samp_rate = 0
       THEN Raise("ZeroDivisionError") /\ UNCHANGED << gain_list, spreading_loss >>
       ELSE IF Len(gdal_metadata.orbit_state_vectors) = 0
       THEN Raise("IndexError") /\ UNCHANGED << gain_list, spreading_loss >>
       ELSE /\ pc' = IF gdal_metadata.line_length = 0 THEN "finish" ELSE "gain"
            /\ UNCHANGED << gain_list, spreading_loss, err >>
    /\ n' = 0
    /\ UNCHANGED << inputs, others, dsd_start, i, ads_seen, metadata, lats, lons,
                    slant_time_first, antenna_gains, lut_reads, result >>

\* int((elev_angle - ref) / 0.05) + 100
ElevIdx(elev_angle, ref) == TruncDiv(elev_angle - ref, lut_step) + lut_centre

\* 0 <= elev_idx <= len(antenna_gains)
LutGuard(elev_idx, gains) == 0 <= elev_idx /\ elev_idx <= Len(gains)

\* The slant range of sample k.
SlantRange(k) == RFirst(slant_time_first) + k * RangeSpacing(gdal_metadata)

\* the fraction is taken of the number of tie points
TieIndex_closed(k, n_samp, tie_len) == TruncDiv(k * tie_len, n_samp)

\* idx = int((n / n_samp) * (len(lats) - 1)): the lower tie point of sample k
TieIndex(k, n_samp, tie_len) == TruncDiv(k * (tie_len - 1), n_samp)

\* The argument of the arc cosine for sample k (lines 333-355), as numerator
\* and denominator of the law of cosines between the slant range, the
\* satellite distance and the distance of the interpolated ground point.
LawOfCosines(k) ==
    LET n_samp == gdal_metadata.line_length
        r == SlantRange(k)
        pos == k * (Len(lats) - 1)
        idx == TieIndex(k, n_samp, Len(lats))
        fract_num == pos % n_samp
        lat == [mant |-> lats[idx + 1].mant
                    + ((lats[idx + 2].mant - lats[idx + 1].mant) * fract_num)
                      \div n_samp,
                exp |-> lats[idx + 1].exp]
        lon == [mant |-> lons[idx + 1].mant
                    + ((lons[idx + 2].mant - lons[idx + 1].mant) * fract_num)
                      \div n_samp,
                exp |-> lons[idx + 1].exp]
        osv == gdal_metadata.orbit_state_vectors
        sat_x == osv[1].x_pos_1 \div 100
        sat_y == osv[1].y_pos_1 \div 100
        sat_z == osv[1].z_pos_1 \div 100
        sar_dis == Isqrt(sat_x * sat_x + sat_y * sat_y + sat_z * sat_z)
        distance == calc_distance(lat, lon)
    IN  [num |-> r * r + sar_dis * sar_dis - distance * distance,
         den |-> 2 * r * sar_dis]

\* The body of the antenna-gain loop for sample k (lines 341-366): the
\* exception it raises, the LUT lookup it made (elevation angle, index and
\* whether antenna_gains[index] was evaluated) and the de-gain factor.
GainOfSample(k) ==
    LET n_samp == gdal_metadata.line_length
        idx == TieIndex(k, n_samp, Len(lats))
        bad == [err |-> "IndexError", lut |-> << >>, degain |-> One]
    IN  IF ~(0 <= idx /\ idx + 1 < Len(lats))
        THEN bad
        ELSE
        LET cos_num == LawOfCosines(k).num
            cos_den == LawOfCosines(k).den
        IN  IF cos_den = 0
            THEN [bad EXCEPT !.err = "ZeroDivisionError"]
            ELSE IF Abs(cos_num) > cos_den
            THEN [bad EXCEPT !.err = "ValueError"]
            ELSE IF "antenna_ref_elev_angle" \notin DOMAIN metadata
            THEN [bad EXCEPT !.err = "KeyError"]
            ELSE
            LET elev_angle == AcosCentiDeg(cos_num, cos_den)
                elev_idx == ElevIdx(elev_angle, metadata["antenna_ref_elev_angle"])
                look == [elev |-> elev_angle, idx |-> elev_idx,
                         read |-> LutGuard(elev_idx, antenna_gains)]
            IN  IF LutGuard(elev_idx, antenna_gains)
                THEN IF elev_idx + 1 \in DOMAIN antenna_gains
                     THEN [err |-> NoError, lut |-> << look >>,
                           degain |-> InvGain(antenna_gains[elev_idx + 1])]
                     ELSE [bad EXCEPT !.lut = << look >>]
                ELSE [err |-> NoError, lut |-> << look >>, degain |-> One]

\* an argument outside the domain does not stop the loop
GainStep_clamped ==
    /\ pc = "gain"
    /\ n < gdal_metadata.line_length
    /\ LET g == GainOfSample(n)
       IN  IF g.err \notin { NoError, "ValueError" }
           THEN /\ Raise(g.err)
                /\ lut_reads' = lut_reads \o g.lut
                /\ UNCHANGED << n, gain_list >>
           ELSE /\ gain_list' = Append(gain_list, g.degain)
                /\ lut_reads' = lut_reads \o g.lut
                /\ n' = IF n + 1 = gdal_metadata.line_length THEN 0 ELSE n + 1
                /\ pc' = IF n + 1 = gdal_metadata.line_length THEN "spread" ELSE "gain"
                /\ UNCHANGED err
    /\ UNCHANGED << inputs, others, dsd_start, i, ads_seen, metadata, lats, lons,
                    slant_time_first, antenna_gains, spreading_loss, result >>

\* One iteration of the antenna-gain loop.
GainStep ==
    /\ pc = "gain"
    /\ n < gdal_metadata.line_length
    /\ LET g == GainOfSample(n)
       IN  IF g.err # NoError
           THEN /\ Raise(g.err)
                /\ lut_reads' = lut_reads \o g.lut
                /\ UNCHANGED << n, gain_list >>
           ELSE /\ gain_list' = Append(gain_list, g.degain)
                /\ lut_reads' = lut_reads \o g.lut
                /\ n' = IF n + 1 = gdal_metadata.line_length THEN 0 ELSE n + 1
                /\ pc' = IF n + 1 = gdal_metadata.line_length THEN "spread" ELSE "gain"
                /\ UNCHANGED err
    /\ UNCHANGED << inputs, others, dsd_start, i, ads_seen, metadata, lats, lons,
                    slant_time_first, antenna_gains, spreading_loss, result >>

\* 3.0, or 4.0 for an APS product
SpreadLossPower(gdal) == IF IsAPS(gdal.product) THEN 4 ELSE 3

\* One iteration of the spreading-loss loop (lines 374-377).
SpreadStep ==
    /\ pc = "spread"
    /\ n < gdal_metadata.line_length
    /\ LET r == SlantRange(n)
       IN  IF r = 0 \/ gdal_metadata.range_ref = 0
           THEN Raise("ZeroDivisionError") /\ UNCHANGED << n, spreading_loss >>
           ELSE /\ spreading_loss' =
                      Append(spreading_loss,
                             InvSpread(gdal_metadata.range_ref, r,
                                       SpreadLossPower(gdal_metadata)))
                /\ n' = n + 1
                /\ pc' = IF n + 1 = gdal_metadata.line_length THEN "finish" ELSE "spread"
                /\ UNCHANGED err
    /\ UNCHANGED << inputs, others, dsd_start, i, ads_seen, metadata, lats, lons,
                    slant_time_first, antenna_gains, gain_list, lut_reads, result >>

\* np.array(spreading_loss) * np.array(gain_arr)
CalVector(spread, gains) == [k \in 1..Len(spread) |-> Times(spread[k], gains[k])]

\* Lines 379-386: the scalar factor of the selected polarization and the
\* calibration vector are stored and the dictionary is returned.
Finish ==
    /\ pc = "finish"
    /\ LET factor_offset == gdal_metadata.polarization_idx
           factors == gdal_metadata.calibration_factors
       IN  IF factor_offset + 1 \notin DOMAIN factors
           THEN Raise("IndexError") /\ UNCHANGED << metadata, result >>
           ELSE LET done == ("cal_factor" :> factors[factor_offset + 1].ext_cal_fact)
                            @@ ("cal_vector" :> CalVector(spreading_loss, gain_list))
                            @@ metadata
                IN  /\ metadata' = done
                    /\ result' = done
                    /\ pc' = "done"
                    /\ UNCHANGED err
    /\ UNCHANGED << inputs, others, dsd_start, i, ads_seen, lats, lons, slant_time_first,
                    antenna_gains, n, gain_list, spreading_loss, lut_reads >>

Next ==
    \/ ReadHeader
    \/ ProcessAds
    \/ SelectBranch
    \/ GainStep
    \/ SpreadStep
    \/ Finish

Spec == Init /\ [][Next]_vars

(* ------------------------------------------------------------------ *)
(* Properties                                                          *)
(* ------------------------------------------------------------------ *)

Returned == pc = "done"

Failed == pc = "error"

Detected == gdal_metadata.sample_type = "DETECTED"

\* The auxiliary file named by the EXTERNAL CALIBRATION descriptor is an
\* entry of the searched directory.
CalFileFound ==
    /\ file.cal.present
    /\ \E nm \in aux.names :
          ParseFilename(TextLine("FILENAME", file.cal.filename, file.cal.pad))
              = EntryName(nm)

\* C1: for a DETECTED product the returned calibration vector has exactly
\* line_length entries and each of them is 1.0, whatever the tie points, the
\* orbit vectors, the gain table, the reference range and the sampling rate.
C1_DetectedAllOnes ==
    (Returned /\ Detected) =>
        /\ Len(result["cal_vector"]) = gdal_metadata.line_length
        /\ \A k \in 1..gdal_metadata.line_length : result["cal_vector"][k] = One

\* A detected product with two samples, a loaded gain table and tie points
\* has returned.
C1_Witness ==
    /\ Returned /\ Detected
    /\ gdal_metadata.line_length = MaxSamp
    /\ Len(antenna_gains) = gain_table_len
    /\ Len(lats) = 11

\* C2: when the auxiliary file named by the EXTERNAL CALIBRATION descriptor
\* is not found (or the descriptor is absent), the open of a non-detected
\* product is not ended by the missing reference angle, and a returned
\* calibration vector has line_length entries.
C2_MissingAuxFileNotFatal ==
    (~CalFileFound /\ ~Detected) =>
        /\ ~(Failed /\ err = "KeyError")
        /\ Returned => Len(result["cal_vector"]) = gdal_metadata.line_length

\* C3: a sample whose LUT index is outside 0..200 gets gain 1.0 and raises no
\* error; the table is read only at indices 0..200, where the de-gain factor
\* is the reciprocal of 10^(gainDb/10).
C3_LutIndexGuard ==
    \A k \in DOMAIN lut_reads :
        LET look == lut_reads[k]
        IN  /\ look.read => look.idx \in 0..(gain_table_len - 1)
            /\ (look.idx < 0 \/ look.idx > gain_table_len - 1) =>
                  /\ ~look.read
                  /\ k \in DOMAIN gain_list
                  /\ gain_list[k] = One
            /\ (look.read /\ look.idx \in 0..(gain_table_len - 1)) =>
                  /\ k \in DOMAIN gain_list
                  /\ gain_list[k] = InvGain(antenna_gains[look.idx + 1])

\* C4: the LUT index of every sample is round((elevationAngle -
\* referenceAngle) / 0.05) + 100, the quotient rounded to the nearest integer.
C4_LutIndexRounded ==
    \A k \in DOMAIN lut_reads :
        lut_reads[k].idx =
            RoundDiv(lut_reads[k].elev - metadata["antenna_ref_elev_angle"], lut_step)
            + lut_centre

\* C5 as stated: a returned record contains every one of the six entries.
C5_CompleteRecord ==
    Returned =>
        {"slant_time_first", "incidence_angle_center", "cal_factor", "cal_vector",
         "grsr_coeffs", "antenna_ref_elev_angle"} \subseteq DOMAIN result

\* C5 amended: a returned record always contains cal_factor and cal_vector;
\* slant_time_first and incidence_angle_center are in it exactly when the
\* table has a GEOLOCATION GRID ADS descriptor, grsr_coeffs exactly when it
\* has an SR GR ADS descriptor of size > 0, and antenna_ref_elev_angle exactly
\* when the auxiliary file of the EXTERNAL CALIBRATION descriptor was found.
C5_RecordFollowsDatasets ==
    Returned =>
        /\ {"cal_factor", "cal_vector"} \subseteq DOMAIN result
        /\ ("slant_time_first" \in DOMAIN result) <=> file.geo.present
        /\ ("incidence_angle_center" \in DOMAIN result) <=> file.geo.present
        /\ ("grsr_coeffs" \in DOMAIN result)
               <=> (file.srgr.present /\ file.srgr.size > 0)
        /\ ("antenna_ref_elev_angle" \in DOMAIN result) <=> CalFileFound

\* A record was returned for a product without geolocation grid but with
\* SR/GR coefficients and a found auxiliary file.
C5_Witness ==
    /\ Returned
    /\ ~file.geo.present
    /\ file.srgr.size > 0
    /\ CalFileFound
    /\ "grsr_coeffs" \in DOMAIN result

\* The SPH_SIZE marker is absent or not at byte 1104.
MarkerFailure == file.mph_index # 1104

\* No metadata and no calibration vector came out of the call.
NothingReturned == ~Returned /\ result = EmptyDict

GeoDecoded == \E k \in DOMAIN ads_seen : ads_seen[k].name = "GEOLOCATION GRID ADS"

\* C6 as stated: if the marker is absent or misplaced, or the geolocation
\* grid's size divided by its count is not 521, the call ends in an error
\* at once and returns nothing.
C6_StructuralFailureAborts ==
    /\ MarkerFailure =>
          (NothingReturned /\ pc \in {"header", "error"} /\ ads_seen = << >>)
    /\ (file.geo.present /\ file.geo.size # 521 * file.geo.num) =>
          (NothingReturned /\ pc \in {"header", "ads", "error"} /\ ~GeoDecoded)

\* C6 amended: the quotient compared with 521 is the integer quotient
\* size // count (a count of 0 ends in an error as well).
C6_IntegerQuotientAborts ==
    /\ MarkerFailure =>
          (NothingReturned /\ pc \in {"header", "error"} /\ ads_seen = << >>)
    /\ (file.geo.present
          /\ (file.geo.num = 0 \/ file.geo.size \div file.geo.num # 521)) =>
          (NothingReturned /\ pc \in {"header", "ads", "error"} /\ ~GeoDecoded)

\* A geolocation grid of wrong record size has ended the call after earlier
\* descriptors were decoded.
C6_Witness ==
    /\ Failed
    /\ err = "AssertionError"
    /\ file.geo.size = 522
    /\ Len(ads_seen) > 0

\* The call failed inside the loop of __process_ads, at descriptor i.
FailedAtAds == Failed /\ ~MarkerFailure /\ i < 18

\* The descriptor the loop failed at, as written in the file.
FailedDsd ==
    LET lines == DsdOf(file, i + 1)
    IN  [name |-> lines[1].text, size |-> lines[5].digits, num |-> lines[6].digits]

DecodedNames == {"GEOLOCATION GRID ADS", "EXTERNAL CALIBRATION", "SR GR ADS"}

\* C7: a GEOLOCATION GRID ADS, EXTERNAL CALIBRATION or SR GR ADS descriptor
\* with record count 0 and size 0 raises no error.
C7_AbsentDatasetTolerated ==
    FailedAtAds =>
        ~(FailedDsd.name \in DecodedNames /\ FailedDsd.num = 0 /\ FailedDsd.size = 0)

\* The geolocation grid has records that are not 521 bytes, or the SR/GR
\* dataset is too short for the seven floats.
GeoShapeUnsupported ==
    file.geo.present /\ file.geo.num > 0 /\ file.geo.size \div file.geo.num # 521

SrGrShapeUnsupported ==
    file.srgr.present /\ file.srgr.size > 0 /\ file.srgr.size < 41

\* C8 as stated: an unsupported geolocation or SR/GR shape does not end the
\* call; the other records are still decoded and delivered.
C8_ShapeFatalForRecordOnly ==
    FailedAtAds =>
        ~(\/ FailedDsd.name = "GEOLOCATION GRID ADS" /\ GeoShapeUnsupported
          \/ FailedDsd.name = "SR GR ADS" /\ SrGrShapeUnsupported)

\* C8 amended: an unsupported geolocation or SR/GR shape is fatal for the
\* whole call: the loop ends at that descriptor and nothing is delivered,
\* whatever was decoded before it.
C8_ShapeFatalForCall ==
    (GeoShapeUnsupported \/ SrGrShapeUnsupported) =>
        /\ NothingReturned
        /\ pc \in {"header", "ads", "error"}
        /\ GeoShapeUnsupported => ~GeoDecoded
        /\ SrGrShapeUnsupported =>
              ~(\E k \in DOMAIN ads_seen : ads_seen[k].name = "SR GR ADS")

\* A too short SR/GR dataset ended the call after the geolocation grid had
\* been decoded; its entries are not delivered.
C8_Witness ==
    /\ Failed
    /\ err = "struct.error"
    /\ "slant_time_first" \in DOMAIN metadata
    /\ result = EmptyDict

\* C9: the decoder returns the 11 latitudes and 11 longitudes of the middle
\* record (index count // 2), each raw integer times 1e-6, in stored order.
C9_MiddleRecordTiePoints ==
    GeoDecoded =>
        /\ lats = [j \in 1..11 |-> Micro(GeoRecord(file.geo.num \div 2).lats[j])]
        /\ lons = [j \in 1..11 |-> Micro(GeoRecord(file.geo.num \div 2).lons[j])]

\* The line of a descriptor slice that starts with a key.
LineByKey(lines, key) == lines[CHOOSE j \in DOMAIN lines : lines[j].key = key]

\* C10: the reader takes the last 18 x 280 bytes of the specific header and
\* yields the 18 descriptors in file order, each with the name, DS_OFFSET,
\* DS_SIZE and NUM_DSR written in its slice.
C10_DescriptorTable ==
    ~MarkerFailure =>
        /\ pc # "header" => dsd_start = file.sph_size - 18 * 280
        /\ Len(ads_seen) <= 18
        /\ pc \in {"builder", "gain", "spread", "finish", "done"}
              => Len(ads_seen) = 18
        /\ \A k \in DOMAIN ads_seen :
              LET lines == DsdOf(file, k)
              IN  /\ ads_seen[k].name = LineByKey(lines, "DS_NAME").text
                  /\ ads_seen[k].offset = LineByKey(lines, "DS_OFFSET").digits
                  /\ ads_seen[k].size = LineByKey(lines, "DS_SIZE").digits
                  /\ ads_seen[k].num = LineByKey(lines, "NUM_DSR").digits

\* All 18 descriptors of a product with the alternative file order were read
\* and the call returned.
C10_Witness ==
    /\ Returned
    /\ Len(ads_seen) = 18
    /\ file.layout = "alt"

(* ------------------------------------------------------------------ *)
(* The SR/GR dataset                                                   *)
(* ------------------------------------------------------------------ *)

\* The call returned on a product whose SR GR ADS is whole 55-byte records.
SrGrWholeRecords ==
    /\ Returned
    /\ file.srgr.present
    /\ file.srgr.num >= 1
    /\ file.srgr.size = 55 * file.srgr.num

\* C11: the SR/GR decoder selects the shape from the size and the record
\* count of the descriptor: a dataset of one record yields one coefficient
\* set, a dataset of several 55-byte records yields one entry per record with
\* the time, the two reference values and the five coefficients of the record.
C11_SrGrShapeSelected ==
    SrGrWholeRecords =>
        /\ "grsr_coeffs" \in DOMAIN result
        /\ IF file.srgr.num = 1
           THEN result["grsr_coeffs"] = SrGrRecordAt(0).coeffs
           ELSE /\ Len(result["grsr_coeffs"]) = file.srgr.num
                /\ \A k \in 1..file.srgr.num :
                       result["grsr_coeffs"][k] = SrGrRecordAt(k - 1)

(* ------------------------------------------------------------------ *)
(* The order of the descriptors                                        *)
(* ------------------------------------------------------------------ *)

\* The table rotated by r places and the table reversed: position k of the
\* rewritten table holds the descriptor of position perm[k] of the product.
Rotation(r) == [k \in 1..dsd_num |-> ((k + r - 1) % dsd_num) + 1]

Reversal == [k \in 1..dsd_num |-> dsd_num + 1 - k]

\* rotations that bring each of the three decoded datasets to the last place
RotationSteps == {1, 5, 9, 17}

TableOrders == { Rotation(r) : r \in RotationSteps } \cup { Reversal }

\* The locals of __process_ads before the loop (lines 409-412).
ProcessAdsStart(md) ==
    [err |-> NoError, lats |-> << >>, lons |-> << >>, slant_time_first |-> 0,
     antenna_gains |-> << 0 >>, metadata |-> md]

\* The body of the loop of __process_ads (lines 414-423) on descriptor text
\* lines, from the locals st.
ProcessAdsBody(st, lines, gdal, pol, auxdir) ==
    IF st.err # NoError THEN st
    ELSE LET ads == EnvisatADS(lines)
             geo == process_geolocation_grid_ads(ads, st.metadata)
             cal == process_cal_ads(ads, gdal, geo.metadata, pol, auxdir)
             srgr == process_sr_gr_ads(ads, cal.metadata)
             e == IF geo.err # NoError THEN geo.err
                  ELSE IF cal.err # NoError THEN cal.err
                  ELSE srgr.err
         IN  IF e # NoError THEN [st EXCEPT !.err = e]
             ELSE [err |-> NoError,
                   lats |-> OrElse(geo.lats, st.lats, << >>),
                   lons |-> OrElse(geo.lons, st.lons, << >>),
                   slant_time_first |->
                       OrElse(geo.slant_time_first, st.slant_time_first, 0),
                   antenna_gains |->
                       OrElse(cal.antenna_gains, st.antenna_gains, << >>),
                   metadata |-> srgr.metadata]

\* __process_ads on the first k descriptors of the table of product p
\* rewritten in the order perm.
RECURSIVE ProcessAdsUpTo(_, _, _, _, _, _)
ProcessAdsUpTo(p, perm, k, gdal, pol, auxdir) ==
    IF k = 0 THEN ProcessAdsStart(EmptyDict)
    ELSE ProcessAdsBody(ProcessAdsUpTo(p, perm, k - 1, gdal, pol, auxdir),
                        DsdOf(p, perm[k]), gdal, pol, auxdir)

\* What __process_ads returned and left in the metadata, in this call.
ProcessAdsOutcome ==
    [err |-> NoError, lats |-> lats, lons |-> lons,
     slant_time_first |-> slant_time_first, antenna_gains |-> antenna_gains,
     metadata |-> metadata]

\* C12: record decoding is order-insensitive: on the table of the product
\* rewritten in any other order, __process_ads returns the same antenna
\* gains, tie points and first slant time and leaves the same metadata.
C12_OrderInsensitive ==
    pc = "builder" =>
        \A perm \in TableOrders :
            ProcessAdsUpTo(file, perm, dsd_num, gdal_metadata, polarization, aux)
                = ProcessAdsOutcome

\* __process_ads returned with the three datasets decoded, on a table of
\* which one of the other orders ends with the tie-point grid.
C12_Witness ==
    /\ pc = "builder"
    /\ Len(lats) = 11
    /\ Len(antenna_gains) = gain_table_len
    /\ "grsr_coeffs" \in DOMAIN metadata
    /\ "antenna_ref_elev_angle" \in DOMAIN metadata
    /\ \E perm \in TableOrders :
           EnvisatADS(DsdOf(file, perm[dsd_num])).name = "GEOLOCATION GRID ADS"

(* ------------------------------------------------------------------ *)
(* The calibration loader on its own                                   *)
(* ------------------------------------------------------------------ *)

\* The swaths by numeral and the polarizations by index.
Swaths == << "IS1", "IS2", "IS3", "IS4", "IS5", "IS6", "IS7" >>

Polarizations == << "H/H", "V/V", "H/V", "V/H" >>

\* The locals of a call that has not started.
FreshLocals ==
    /\ dsd_start = 0
    /\ i = 0
    /\ ads_seen = << >>
    /\ metadata = EmptyDict
    /\ lats = << >>
    /\ lons = << >>
    /\ slant_time_first = 0
    /\ antenna_gains = << >>
    /\ n = 0
    /\ gain_list = << >>
    /\ spreading_loss = << >>
    /\ lut_reads = << >>
    /\ err = NoError
    /\ result = EmptyDict

\* A call of __process_cal_ads on one descriptor, for a swath of numeral k
\* and a polarization of index q (or a polarization string of no index).
InitCal ==
    /\ \E cv \in CalVariants, k \in 1..Len(Swaths), q \in 0..Len(Polarizations) :
          /\ file = [mph_index |-> sph_marker_offset, sph_size |-> 6099,
                     layout |-> "std",
                     geo |-> [present |-> FALSE, size |-> 0, num |-> 0],
                     srgr |-> [present |-> TRUE, size |-> 0, num |-> 0],
                     cal |-> [present |-> cv.present, filename |-> cv.filename,
                              pad |-> cv.pad]]
          /\ aux = [names |-> {AuxName}, ref |-> cv.ref]
          /\ gdal_metadata =
                [line_length |-> 1, sample_type |-> "COMPLEX",
                 product |-> "ASA_IMS_1PNESA20040109.N1", swath |-> Swaths[k],
                 polarization_idx |-> 0, range_samp_rate |-> 1, range_ref |-> 3,
                 orbit_state_vectors |-> << >>,
                 calibration_factors |-> CalibrationFactors]
          /\ polarization = IF q < Len(Polarizations) THEN Polarizations[q + 1]
                            ELSE "X/X"
          /\ call = [fn |-> "__process_cal_ads", numeral |-> k, pol_index |-> q]
    /\ pc = "cal"
    /\ returned = << >>
    /\ FreshLocals

\* __process_cal_ads on the EXTERNAL CALIBRATION descriptor of the table.
LoadCal ==
    /\ pc = "cal"
    /\ LET ads == EnvisatADS(DsdOf(file, 17))
           cal == process_cal_ads(ads, gdal_metadata, metadata, polarization, aux)
       IN  IF cal.err # NoError
           THEN Raise(cal.err) /\ UNCHANGED << antenna_gains, metadata >>
           ELSE /\ antenna_gains' = cal.antenna_gains
                /\ metadata' = cal.metadata
                /\ pc' = "done"
                /\ UNCHANGED err
    /\ UNCHANGED << inputs, others, dsd_start, i, ads_seen, lats, lons,
                    slant_time_first, n, gain_list, spreading_loss, lut_reads,
                    result >>

SpecCal == InitCal /\ [][LoadCal]_vars

\* The bytes of the gain block read for swath index s, polarization index q.
GainBlockBytes(s, q) ==
    { GainBlockStart(s, q) + b : b \in 0..(4 * gain_table_len - 1) }

\* The loader ran on a descriptor naming the auxiliary file, for a
\* polarization that has an index.
LoadedCal ==
    /\ call.fn = "__process_cal_ads"
    /\ pc = "done"
    /\ file.cal.present
    /\ file.cal.filename = AuxName
    /\ file.cal.pad = 1

\* C13: for a descriptor naming the auxiliary file, a swath of numeral k and
\* a polarization of index q, the loader returns the 201 gains stored for
\* swath index k-1 and polarization index q and stores the reference
\* elevation angle of swath index k-1; the blocks of distinct pairs share no
\* byte.
C13_GainBlockOfSwathAndPolarization ==
    LoadedCal =>
        /\ antenna_gains =
              [k \in 1..gain_table_len |->
                  AuxGainDb(call.numeral - 1, call.pol_index, k - 1)]
        /\ metadata["antenna_ref_elev_angle"] = AuxMidAngle(aux.ref, call.numeral - 1)
        /\ \A s \in 0..(Len(Swaths) - 1), q \in 0..(Len(Polarizations) - 1) :
              (s # call.numeral - 1 \/ q # call.pol_index) =>
                  GainBlockBytes(s, q)
                      \cap GainBlockBytes(call.numeral - 1, call.pol_index) = {}

\* the loader returned the block of swath 3 (index 2) and polarization V/V
C13_Witness ==
    /\ LoadedCal
    /\ call.numeral = 3
    /\ call.pol_index = 1
    /\ Len(antenna_gains) = gain_table_len

(* ------------------------------------------------------------------ *)
(* Time decoding (utils.get_envisat_time)                              *)
(* ------------------------------------------------------------------ *)

\* "{},{},{}".format(mjd[0], mjd[1], mjd[2]): the three decimal fields.
FormatMjd(mjd) ==
    [k \in 1..3 |-> [sign |-> IF mjd[k] < 0 THEN -1 ELSE 1, digits |-> Abs(mjd[k])]]

\* timedelta(days, seconds, microseconds): the normalised duration, with
\* 0 <= seconds < 86400 and 0 <= microseconds < 1000000, or no duration when
\* the days leave the range of the type.
timedelta(days, seconds, microseconds) ==
    LET us == microseconds % 1000000
        s_all == seconds + (microseconds \div 1000000)
        s == s_all % 86400
        d == days + (s_all \div 86400)
    IN  IF Abs(d) > 999999999
        THEN [kind |-> "OverflowError"]
        ELSE [kind |-> "timedelta", days |-> d, seconds |-> s, microseconds |-> us]

\* datetime(2000, 1, 1) + delta: datetime holds the years 1 to 9999, which
\* are the days -730119 to 2921939 from the epoch.
EpochPlus(delta) ==
    IF delta.kind # "timedelta" THEN delta
    ELSE IF delta.days < -730119 \/ delta.days > 2921939
    THEN [kind |-> "OverflowError"]
    ELSE [kind |-> "datetime", days |-> delta.days, seconds |-> delta.seconds,
          microseconds |-> delta.microseconds]

\* the second and third fields read the other way round
get_envisat_time_swapped(time_str) ==
    IF Len(time_str) = 0 THEN [kind |-> "None"]
    ELSE LET days == IF Len(time_str) > 0 THEN parse_int(time_str[1]) ELSE 0
             seconds == IF Len(time_str) > 2 THEN parse_int(time_str[3]) ELSE 0
             microseconds == IF Len(time_str) > 1 THEN parse_int(time_str[2]) ELSE 0
         IN  EpochPlus(timedelta(days, seconds, microseconds))

\* get_envisat_time up to the datetime dt (lines 17-35): None for an empty
\* string, else the epoch plus the duration of the fields of the string.
get_envisat_time(time_str) ==
    IF Len(time_str) = 0 THEN [kind |-> "None"]
    ELSE LET days == IF Len(time_str) > 0 THEN parse_int(time_str[1]) ELSE 0
             seconds == IF Len(time_str) > 1 THEN parse_int(time_str[2]) ELSE 0
             microseconds == IF Len(time_str) > 2 THEN parse_int(time_str[3]) ELSE 0
         IN  EpochPlus(timedelta(days, seconds, microseconds))

\* np.datetime64(dt, 'ns') (line 38): a 64-bit count of nanoseconds holds
\* the instants from 1677-09-21 to 2262-04-11, days -117708 to 95793 from the
\* epoch. Outside them the conversion raises or wraps, as the library version
\* has it; a wrapped count is some instant of the range.
Datetime64Ns(dt) ==
    IF dt.kind # "datetime" THEN { dt }
    ELSE IF -117708 <= dt.days /\ dt.days <= 95793
    THEN { [kind |-> "instant", exact |-> TRUE, days |-> dt.days,
            seconds |-> dt.seconds, microseconds |-> dt.microseconds] }
    ELSE { [kind |-> "OverflowError"] }
         \cup { [kind |-> "instant", exact |-> FALSE, days |-> d,
                 seconds |-> dt.seconds, microseconds |-> dt.microseconds]
                : d \in {-100000, 90000} }

\* The triplets a record can hold (bounded) and the time strings made of
\* them, with the empty string of a missing time.
Triplets ==
    { << d, s, us >> : d \in {-1, 0, 1, 100000, 2921939, 2921940},
                       s \in {-1, 0, 86399, 86400},
                       us \in {-1, 0, 999999, 1000000} }

TimeStrings == { FormatMjd(t) : t \in Triplets } \cup { << >> }

\* Two time strings are decoded one after the other.
InitTime ==
    /\ \E a \in TimeStrings, b \in TimeStrings :
           call = [fn |-> "get_envisat_time", args |-> << a, b >>]
    /\ pc = "time"
    /\ returned = << >>
    /\ file = [mph_index |-> sph_marker_offset, sph_size |-> 6099, layout |-> "std",
               geo |-> [present |-> FALSE, size |-> 0, num |-> 0],
               srgr |-> [present |-> TRUE, size |-> 0, num |-> 0],
               cal |-> [present |-> FALSE, filename |-> "", pad |-> 62]]
    /\ aux = [names |-> {AuxName}, ref |-> 6000]
    /\ gdal_metadata = EmptyDict
    /\ polarization = "H/H"
    /\ FreshLocals

\* One call of get_envisat_time, on the next of the two strings.
DecodeTime ==
    /\ pc = "time"
    /\ \E out \in Datetime64Ns(get_envisat_time(call.args[Len(returned) + 1])) :
           returned' = Append(returned, out)
    /\ pc' = IF Len(returned) + 1 = Len(call.args) THEN "done" ELSE "time"
    /\ UNCHANGED << inputs, call, dsd_start, i, ads_seen, metadata, lats, lons,
                    slant_time_first, antenna_gains, n, gain_list,
                    spreading_loss, lut_reads, err, result >>

SpecTime == InitTime /\ [][DecodeTime]_vars

\* The triplet written in a time string.
TripletOf(time_str) == [k \in 1..3 |-> parse_int(time_str[k])]

\* compared by days, then seconds, then microseconds
Earlier(a, b) ==
    \/ a[1] < b[1]
    \/ a[1] = b[1] /\ a[2] < b[2]
    \/ a[1] = b[1] /\ a[2] = b[2] /\ a[3] < b[3]

InstantLeq(x, y) ==
    Earlier(<< x.days, x.seconds, x.microseconds >>,
            << y.days, y.seconds, y.microseconds >>)
    \/ << x.days, x.seconds, x.microseconds >> = << y.days, y.seconds, y.microseconds >>

\* seconds of a day and microseconds of a second
InDay(t) == 0 <= t[2] /\ t[2] < 86400 /\ 0 <= t[3] /\ t[3] < 1000000

\* Both strings held a triplet and both were decoded to an instant the
\* result type holds.
BothDecoded ==
    /\ call.fn = "get_envisat_time"
    /\ pc = "done"
    /\ Len(call.args[1]) = 3 /\ Len(call.args[2]) = 3
    /\ returned[1].kind = "instant" /\ returned[1].exact
    /\ returned[2].kind = "instant" /\ returned[2].exact

C15_DecodingNeverFails ==
    (call.fn = "get_envisat_time" /\ Len(returned) >= 1) =>
        IF Len(call.args[1]) = 0
        THEN returned[1].kind = "None"
        ELSE returned[1].kind = "instant"

(* ------------------------------------------------------------------ *)
(* Two calls of parse_direct on the same inputs                        *)
(* ------------------------------------------------------------------ *)

\* a second call that finds the sample lists of the first
CallAgain_stale ==
    /\ pc = "done"
    /\ call.nth = 1
    /\ returned' = Append(returned, result)
    /\ call' = [call EXCEPT !.nth = 2]
    /\ pc' = "header"
    /\ dsd_start' = 0
    /\ i' = 0
    /\ ads_seen' = << >>
    /\ metadata' = EmptyDict
    /\ lats' = << >>
    /\ lons' = << >>
    /\ slant_time_first' = 0
    /\ antenna_gains' = << 0 >>
    /\ n' = 0
    /\ lut_reads' = << >>
    /\ result' = EmptyDict
    /\ UNCHANGED << inputs, err, gain_list, spreading_loss >>

\* parse_direct is called a second time with the arguments of the first
\* call: every local of the call is built anew (lines 303, 321, 337, 409-412).
CallAgain ==
    /\ pc = "done"
    /\ call.nth = 1
    /\ returned' = Append(returned, result)
    /\ call' = [call EXCEPT !.nth = 2]
    /\ pc' = "header"
    /\ dsd_start' = 0
    /\ i' = 0
    /\ ads_seen' = << >>
    /\ metadata' = EmptyDict
    /\ lats' = << >>
    /\ lons' = << >>
    /\ slant_time_first' = 0
    /\ antenna_gains' = << 0 >>
    /\ n' = 0
    /\ gain_list' = << >>
    /\ spreading_loss' = << >>
    /\ lut_reads' = << >>
    /\ result' = EmptyDict
    /\ UNCHANGED << inputs, err >>

NextTwice ==
    \/ ReadHeader
    \/ ProcessAds
    \/ SelectBranch
    \/ GainStep
    \/ SpreadStep
    \/ Finish
    \/ CallAgain

SpecTwice == Init /\ [][NextTwice]_vars

NoCorrectionLoaded ==
    /\ antenna_gains = << 0 >>
    /\ "antenna_ref_elev_angle" \notin DOMAIN metadata

\* C17: when the attributes say that the antenna-gain correction was applied
\* upstream (a detected product), the loader returns no correction and the
\* builder applies unity antenna gain to every sample, not the gain table of
\* the auxiliary file.
C17_NoCorrectionWhenAppliedUpstream ==
    (call.fn = "parse_direct" /\ Returned /\ Detected) =>
        /\ NoCorrectionLoaded
        /\ \A k \in 1..Len(gain_list) : gain_list[k] = One

(* ------------------------------------------------------------------ *)
(* The scalar calibration factor                                       *)
(* ------------------------------------------------------------------ *)

\* EXT_CAL_FACT of the calibration-factors attributes of index idx.
ExtCalFactOf(idx) ==
    (CHOOSE k \in GdalCalibrationKeys : k.idx = idx /\ k.param = "ext_cal_fact").value

\* C18: the scalar calibration factor returned is the ext_cal_fact of the
\* record of the selected polarization, that of MDS1 for polarization_idx 0
\* and that of MDS2 for polarization_idx 1, whatever the sample type and the
\* geometry.
C18_FactorOfSelectedPolarization ==
    (call.fn = "parse_direct" /\ Returned) =>
        result["cal_factor"] =
            IF gdal_metadata.polarization_idx = 0 THEN ExtCalFactOf(1) ELSE ExtCalFactOf(2)

\* a complex product returned the factor of MDS2, another than that of MDS1
C18_Witness ==
    /\ call.fn = "parse_direct" /\ Returned
    /\ gdal_metadata.polarization_idx = 1
    /\ gdal_metadata.sample_type = "COMPLEX"
    /\ result["cal_factor"] = ExtCalFactOf(2)
    /\ ExtCalFactOf(2) # ExtCalFactOf(1)

(* ------------------------------------------------------------------ *)
(* The dataset (asar.create_dataset)                                   *)
(* ------------------------------------------------------------------ *)

\* the largest number of output lines and of raster rows
MaxLines == 3

\* xr.open_dataarray(filepath, engine='rasterio'): one array of dimensions
\* (band, y, x) over the measurement datasets of the product.
open_dataarray(raster) ==
    [dims |-> << "band", "y", "x" >>,
     shape |-> << raster.bands, raster.rows, raster.cols >>]

\* Lines 215-219: the band of a one-band raster is squeezed away, of a
\* two-band raster the band of the selected polarization is kept.
SelectBand(data, polarization_idx) ==
    IF data.shape[1] = 1
    THEN [dims |-> Tail(data.dims), shape |-> Tail(data.shape)]
    ELSE IF data.shape[1] = 2
    THEN [dims |-> << "y", "x" >>, shape |-> Tail(data.shape)]
    ELSE data

\* dimensions that keep their names
RenameDims_none(data, names) == data

\* data.rename(names) and data.swap_dims(names), on the dimensions.
RenameDims(data, names) ==
    [data EXCEPT !.dims = [k \in DOMAIN data.dims |->
                              IF data.dims[k] \in DOMAIN names
                              THEN names[data.dims[k]] ELSE data.dims[k]]]

\* compute_azimuth_time: number_of_lines instants evenly spaced from the
\* first to the last line time.
compute_azimuth_time(first, last, number_of_lines) ==
    [k \in 1..number_of_lines |->
        IF number_of_lines = 1 THEN first
        ELSE first + ((last - first) * (k - 1)) \div (number_of_lines - 1)]

\* np.linspace(start, start + step * (num - 1), num), in units of step
Linspace(start, num) == [k \in 1..num |-> start + (k - 1)]

\* Lines 118-211: the coordinates, each on its dimension.
DatasetCoords(md) ==
    ("pixel" :> [dim |-> "pixel", values |-> Linspace(0, md.line_length)])
    @@ ("line" :> [dim |-> "line", values |-> Linspace(0, md.num_output_lines)])
    @@ ("azimuth_time" :>
           [dim |-> "line",
            values |-> compute_azimuth_time(md.first_line_time, md.last_line_time,
                                            md.num_output_lines)])
    @@ ("slant_range_time" :>
           [dim |-> "pixel", values |-> Linspace(md.slant_time_first, md.line_length)])

\* data.assign_coords(coords): a coordinate whose length is not the size of
\* its dimension is refused.
AssignCoordsError(data, coords) ==
    IF \E nm \in DOMAIN coords, k \in DOMAIN data.dims :
           /\ coords[nm].dim = data.dims[k]
           /\ Len(coords[nm].values) # data.shape[k]
    THEN "ValueError" ELSE NoError

\* create_dataset: the exception raised, or the dataset with its one data
\* variable and the coordinates by the name of their dimension after the swap.
create_dataset(md, raster) ==
    IF md.product_type # "SLC" /\ ~md.has_grsr_coeffs
    THEN [err |-> "KeyError"]
    ELSE LET coords == DatasetCoords(md)
             band == SelectBand(open_dataarray(raster), md.polarization_idx)
             named == RenameDims(band, ("y" :> "line") @@ ("x" :> "pixel"))
             swap_dims == ("line" :> "azimuth_time") @@ ("pixel" :> "slant_range_time")
         IN  IF AssignCoordsError(named, coords) # NoError
             THEN [err |-> AssignCoordsError(named, coords)]
             ELSE [err |-> NoError,
                   data_vars |-> ("measurements" :> RenameDims(named, swap_dims)),
                   coords |-> [nm \in DOMAIN coords |->
                                  [dim |-> IF coords[nm].dim \in DOMAIN swap_dims
                                           THEN swap_dims[coords[nm].dim]
                                           ELSE coords[nm].dim,
                                   values |-> coords[nm].values]]]

\* The attributes of a product and the raster the reader opens on it.
InitDataset ==
    /\ \E lines \in 1..MaxLines, rows \in 1..MaxLines, samples \in 1..MaxSamp,
          cols \in 1..MaxSamp, bands \in {1, 2}, idx \in {0, 1},
          pt \in {"SLC", "GRD"}, grsr \in BOOLEAN :
          call = [fn |-> "create_dataset",
                  metadata |-> [line_length |-> samples, num_output_lines |-> lines,
                                first_line_time |-> 1000, last_line_time |-> 1060,
                                slant_time_first |-> 5500, product_type |-> pt,
                                polarization_idx |-> idx, has_grsr_coeffs |-> grsr],
                  raster |-> [bands |-> bands, rows |-> rows, cols |-> cols]]
    /\ pc = "dataset"
    /\ returned = << >>
    /\ file = [mph_index |-> sph_marker_offset, sph_size |-> 6099, layout |-> "std",
               geo |-> [present |-> FALSE, size |-> 0, num |-> 0],
               srgr |-> [present |-> TRUE, size |-> 0, num |-> 0],
               cal |-> [present |-> FALSE, filename |-> "", pad |-> 62]]
    /\ aux = [names |-> {AuxName}, ref |-> 6000]
    /\ gdal_metadata = EmptyDict
    /\ polarization = "H/H"
    /\ FreshLocals

\* open_asar_dataset builds the dataset of the product.
CreateDataset ==
    /\ pc = "dataset"
    /\ LET ds == create_dataset(call.metadata, call.raster)
       IN  IF ds.err # NoError
           THEN Raise(ds.err) /\ UNCHANGED returned
           ELSE /\ returned' = << ds >>
                /\ pc' = "done"
                /\ UNCHANGED err
    /\ UNCHANGED << inputs, call, dsd_start, i, ads_seen, metadata, lats, lons,
                    slant_time_first, antenna_gains, n, gain_list,
                    spreading_loss, lut_reads, result >>

SpecDataset == InitDataset /\ [][CreateDataset]_vars

DatasetReturned == call.fn = "create_dataset" /\ pc = "done"

\* C19: the dataset has a data variable 'measurements' of dimensions
\* (azimuth_time, slant_range_time), of sizes (number of output lines,
\* samples per line), and the azimuth_time and slant_range_time coordinates
\* have those lengths.
C19_MeasurementsShape ==
    DatasetReturned =>
        LET ds == returned[1]
        IN  /\ "measurements" \in DOMAIN ds.data_vars
            /\ ds.data_vars["measurements"].dims = << "azimuth_time", "slant_range_time" >>
            /\ ds.data_vars["measurements"].shape =
                   << call.metadata.num_output_lines, call.metadata.line_length >>
            /\ ds.coords["azimuth_time"].dim = "azimuth_time"
            /\ Len(ds.coords["azimuth_time"].values) = call.metadata.num_output_lines
            /\ ds.coords["slant_range_time"].dim = "slant_range_time"
            /\ Len(ds.coords["slant_range_time"].values) = call.metadata.line_length

\* the dataset of a two-band raster of three lines and two samples
C19_Witness ==
    /\ DatasetReturned
    /\ call.raster = [bands |-> 2, rows |-> 3, cols |-> 2]
    /\ returned[1].data_vars["measurements"].shape = << 3, 2 >>

\* C20: a product opened through the xarray backend, which hands the call to
\* open_asar_dataset, yields a dataset with dimensions x (samples per line)
\* and y (lines) and a data variable pixel_values of shape (lines, samples).
C20_BackendPixelValues ==
    DatasetReturned =>
        LET ds == returned[1]
        IN  /\ "pixel_values" \in DOMAIN ds.data_vars
            /\ ds.data_vars["pixel_values"].dims = << "y", "x" >>
            /\ ds.data_vars["pixel_values"].shape =
                   << call.metadata.num_output_lines, call.metadata.line_length >>

(* ------------------------------------------------------------------ *)
(* Indexed record groups (records_metadata)                            *)
(* ------------------------------------------------------------------ *)

\* The product inputs of parse_direct, at rest while another function runs.
IdleInputs ==
    /\ file = [mph_index |-> sph_marker_offset, sph_size |-> 6099, layout |-> "std",
               geo |-> [present |-> FALSE, size |-> 0, num |-> 0],
               srgr |-> [present |-> TRUE, size |-> 0, num |-> 0],
               cal |-> [present |-> FALSE, filename |-> "", pad |-> 62]]
    /\ aux = [names |-> {AuxName}, ref |-> 6000]
    /\ gdal_metadata = EmptyDict
    /\ polarization = "H/H"

\* The six processors that collect 'MAIN_PROCESSING_PARAMS_ADS_<GROUP>.<idx>.
\* <PARAM>' keys by index, with two parameters of each group.
IndexedGroups ==
    [ raw_data_analysis |-> << "NUM_GAPS", "DATA_ANALYSIS_FLAG" >>,
      nominal_chirp |-> << "NOM_CHIRP_AMP", "NOM_CHIRP_PHS" >>,
      calibration_factors |-> << "PROC_SCALING_FACT", "EXT_CAL_FACT" >>,
      output_statistics |-> << "OUT_MEAN", "OUT_STD_DEV" >>,
      orbit_state_vectors |-> << "X_POS_1", "STATE_VECT_TIME_1" >>,
      start_time |-> << "FIRST_OBT", "FIRST_MJD" >> ]

\* str.lower() on the parameter names
Lower ==
    [ NUM_GAPS |-> "num_gaps", DATA_ANALYSIS_FLAG |-> "data_analysis_flag",
      NOM_CHIRP_AMP |-> "nom_chirp_amp", NOM_CHIRP_PHS |-> "nom_chirp_phs",
      PROC_SCALING_FACT |-> "proc_scaling_fact", EXT_CAL_FACT |-> "ext_cal_fact",
      OUT_MEAN |-> "out_mean", OUT_STD_DEV |-> "out_std_dev",
      X_POS_1 |-> "x_pos_1", STATE_VECT_TIME_1 |-> "state_vect_time_1",
      FIRST_OBT |-> "first_obt", FIRST_MJD |-> "first_mjd", X |-> "x",
      INVALID_KEY |-> "invalid_key" ]

\* The shapes of the keys of group g: the group the key starts with and the
\* dot-separated parts behind it. Two indices, a key of two parts, a key of
\* four parts and a key of another group.
KeyShapes(g) ==
    << [prefix |-> g, parts |-> << 2, IndexedGroups[g][1] >>],
       [prefix |-> g, parts |-> << 1, IndexedGroups[g][1] >>],
       [prefix |-> g, parts |-> << 1, IndexedGroups[g][2] >>],
       [prefix |-> g, parts |-> << "INVALID_KEY" >>],
       [prefix |-> g, parts |-> << 1, IndexedGroups[g][2], "X" >>],
       [prefix |-> IF g = "start_time" THEN "output_statistics" ELSE "start_time",
        parts |-> << 3, "FIRST_OBT" >>] >>

\* a key of any number of parts is taken
IsIndexedKey_any(key, g) == key.prefix = g /\ Len(key.parts) >= 2

\* key.startswith(prefix) and len(key.split('.')) == 3: the text before the
\* first dot is one part.
IsIndexedKey(key, g) == key.prefix = g /\ 1 + Len(key.parts) = 3

\* values[0] if len(values) == 1 else values
ScalarOrList(values) ==
    IF Len(values) = 1 THEN [list |-> FALSE, v |-> values[1]]
    ELSE [list |-> TRUE, v |-> values]

\* The conversion of a value text for parameter param (lowercase) of group g.
ConvertValue(g, param, text) ==
    CASE g = "nominal_chirp" -> ScalarOrList(text)
      [] g = "raw_data_analysis" /\ param = "data_analysis_flag" ->
             [list |-> FALSE, v |-> text[1] # 0]
      [] g = "orbit_state_vectors" /\ param = "state_vect_time_1" ->
             [list |-> FALSE, v |-> get_envisat_time(FormatMjd(<< 1500, text[1], 0 >>))]
      [] g = "start_time" /\ param = "first_mjd" ->
             [list |-> FALSE, v |-> get_envisat_time(FormatMjd(<< 1500, text[1], 0 >>))]
      [] g = "start_time" -> [list |-> TRUE, v |-> text]
      [] OTHER -> [list |-> FALSE, v |-> text[1]]

\* The body of the loop over metadata.items(): the dictionary by index
\* after one item.
IndexedPut(dict, g, item) ==
    IF ~IsIndexedKey(item.key, g) THEN dict
    ELSE LET idx == item.key.parts[1]
             param == Lower[item.key.parts[2]]
             old == IF idx \in DOMAIN dict THEN dict[idx] ELSE ("index" :> idx)
             new == (param :> ConvertValue(g, param, item.value)) @@ old
         IN  (idx :> new) @@ dict

\* sorted(keys)
Sorted(S) ==
    CHOOSE s \in [1..Cardinality(S) -> S] : \A a, b \in DOMAIN s : a < b => s[a] < s[b]

\* any(v != 0 and v != [0.0] for v in entry.values() if v != idx), the
\* 'index' entry being idx itself; a list never equals a number
ChirpKept(entry, idx) ==
    \E f \in DOMAIN entry \ {"index"} :
        /\ entry[f].list \/ entry[f].v # idx
        /\ entry[f].list \/ entry[f].v # 0
        /\ ~(entry[f].list /\ entry[f].v = << 0 >>)

\* The list returned: the entries in ascending order of index, for the
\* nominal chirp without the entries the filter drops.
IndexedList(dict, g) ==
    LET kept == IF g = "nominal_chirp"
                THEN { idx \in DOMAIN dict : ChirpKept(dict[idx], idx) }
                ELSE DOMAIN dict
        order == Sorted(kept)
    IN  [j \in DOMAIN order |-> dict[order[j]]]

\* The item sequences: up to three distinct keys of the group in any order,
\* each with a value text, the numbers written in it.
ItemLists(g) ==
    LET ids == DOMAIN KeyShapes(g)
        vals == IF g = "nominal_chirp" THEN { << 0 >>, << 1 >>, << 2 >>, << 0, 2 >> } ELSE { << 1 >>, << 2 >> }
        orders == { << >> } \cup { << a >> : a \in ids }
                  \cup { << a, b >> : a \in ids, b \in ids }
                  \cup { << a, b, d >> : a \in ids, b \in ids, d \in ids }
    IN  UNION { { [k \in DOMAIN o |-> [key |-> KeyShapes(g)[o[k]], value |-> vs[k]]]
                  : vs \in [DOMAIN o -> vals] }
                : o \in { x \in orders : \A a, b \in DOMAIN x : a # b => x[a] # x[b] } }

InitIndexed ==
    /\ \E g \in DOMAIN IndexedGroups : \E items \in ItemLists(g) :
           call = [fn |-> "process_indexed", group |-> g, items |-> items]
    /\ pc = "keys"
    /\ returned = << >>
    /\ IdleInputs
    /\ FreshLocals

\* One iteration of the loop over the items of the metadata.
IndexedStep ==
    /\ pc = "keys"
    /\ i < Len(call.items)
    /\ metadata' = IndexedPut(metadata, call.group, call.items[i + 1])
    /\ i' = i + 1
    /\ UNCHANGED << inputs, others, pc, dsd_start, ads_seen, lats, lons,
                    slant_time_first, antenna_gains, n, gain_list,
                    spreading_loss, lut_reads, err, result >>

\* The return statement: the sorted list of the entries.
IndexedReturn ==
    /\ pc = "keys"
    /\ i = Len(call.items)
    /\ returned' = << IndexedList(metadata, call.group) >>
    /\ pc' = "done"
    /\ UNCHANGED << inputs, call, dsd_start, i, ads_seen, metadata, lats, lons,
                    slant_time_first, antenna_gains, n, gain_list,
                    spreading_loss, lut_reads, err, result >>

SpecIndexed == InitIndexed /\ [][IndexedStep \/ IndexedReturn]_vars

\* The items of the call whose key belongs to the group and has three parts.
GroupItems ==
    { k \in DOMAIN call.items :
        call.items[k].key.prefix = call.group /\ Len(call.items[k].key.parts) = 2 }

IndexedDone(groups) ==
    call.fn = "process_indexed" /\ pc = "done" /\ call.group \in groups

\* C21: for raw data analysis, calibration factors, output statistics, orbit
\* state vectors and start time, in whatever order the keys come, the list
\* returned is strictly ascending by index, has one entry per distinct index
\* of the three-part keys of the group, each entry holds exactly the
\* parameters given for its index, and other keys contribute nothing (an
\* empty input gives an empty list).
C21_IndexedList ==
    IndexedDone(DOMAIN IndexedGroups \ {"nominal_chirp"}) =>
        LET L == returned[1]
            items == call.items
        IN  /\ \A a, b \in DOMAIN L : a < b => L[a]["index"] < L[b]["index"]
            /\ { L[a]["index"] : a \in DOMAIN L }
                   = { items[k].key.parts[1] : k \in GroupItems }
            /\ \A a \in DOMAIN L :
                   /\ DOMAIN L[a] = {"index"} \cup
                          { Lower[items[k].key.parts[2]] :
                              k \in { x \in GroupItems :
                                        items[x].key.parts[1] = L[a]["index"] } }
                   /\ \A k \in GroupItems :
                          items[k].key.parts[1] = L[a]["index"] =>
                              L[a][Lower[items[k].key.parts[2]]] =
                                  ConvertValue(call.group,
                                               Lower[items[k].key.parts[2]],
                                               items[k].value)

\* index 2 came before index 1, with a key of four parts between them
C21_Witness ==
    /\ IndexedDone({"orbit_state_vectors"})
    /\ Len(call.items) = 3
    /\ call.items[1].key.parts = << 2, "X_POS_1" >>
    /\ Len(call.items[2].key.parts) = 3
    /\ call.items[3].key.parts = << 1, "STATE_VECT_TIME_1" >>
    /\ Len(returned[1]) = 2

\* A value text that is not zero.
NonZeroText(text) == \E k \in DOMAIN text : text[k] # 0

\* C22: process_nominal_chirp keeps the entry of an index if and only if at
\* least one parameter value given for the index is non-zero, also when the
\* value equals the index.
C22_ChirpDropsOnlyEmpty ==
    IndexedDone({"nominal_chirp"}) =>
        \A idx \in { call.items[k].key.parts[1] : k \in GroupItems } :
            (\E a \in DOMAIN returned[1] : returned[1][a]["index"] = idx)
            <=> (\E k \in GroupItems : /\ call.items[k].key.parts[1] = idx
                                       /\ NonZeroText(call.items[k].value))

(* ------------------------------------------------------------------ *)
(* Typed coercion of metadata values (utils, general/records metadata) *)
(* ------------------------------------------------------------------ *)

\* Longest value text tried.
MaxStr == 4

\* The characters of the value texts.
Chars == { "0", "1", "2", "+", "-", ".", "E" }

\* value.replace(ch, '')
Remove(value, ch) == SelectSeq(value, LAMBDA x : x # ch)

\* str.isdigit(): not empty and digits only
IsDigit(value) == Len(value) > 0 /\ \A k \in DOMAIN value : value[k] \in { "0", "1", "2" }

\* The number a digit string writes.
RECURSIVE DigitsValue(_)
DigitsValue(s) ==
    IF s = << >> THEN 0
    ELSE 10 * DigitsValue(SubSeq(s, 1, Len(s) - 1))
         + (CASE s[Len(s)] = "0" -> 0 [] s[Len(s)] = "1" -> 1 [] OTHER -> 2)

\* The text behind an optional leading sign.
Unsigned(s) == IF s # << >> /\ s[1] \in { "+", "-" } THEN Tail(s) ELSE s

SignOf(s) == IF s # << >> /\ s[1] = "-" THEN -1 ELSE 1

\* An integer literal: an optional sign and at least one digit.
IsIntLiteral(s) == IsDigit(Unsigned(s))

\* int(s) of Python
PyInt(s) ==
    IF IsIntLiteral(s) THEN [kind |-> "int", v |-> SignOf(s) * DigitsValue(Unsigned(s))]
    ELSE [kind |-> "ValueError"]

\* numeric = value.replace('+', '-').replace('-', ''); int(value.replace(
\* '+', '')) if numeric.isdigit(), else None
try_parse_int(value) ==
    IF IsDigit(Remove(Remove(value, "+"), "-")) THEN PyInt(Remove(value, "+"))
    ELSE [kind |-> "None"]

\* float(s) of Python for the characters at hand: [sign] digits and at most
\* one point, at least one digit, then optionally E [sign] digits. The value
\* is mant * 10^exp.
PyFloat(s) ==
    LET es == { k \in DOMAIN s : s[k] = "E" }
        e == IF es = {} THEN Len(s) + 1 ELSE CHOOSE k \in es : TRUE
        m == Unsigned(SubSeq(s, 1, e - 1))
        x == SubSeq(s, e + 1, Len(s))
        dots == { k \in DOMAIN m : m[k] = "." }
        dot == IF dots = {} THEN Len(m) ELSE CHOOSE k \in dots : TRUE
    IN  IF /\ Cardinality(es) <= 1
           /\ Cardinality(dots) <= 1
           /\ IsDigit(Remove(m, "."))
           /\ (es # {} => IsIntLiteral(x))
        THEN [kind |-> "float",
              mant |-> SignOf(s) * DigitsValue(Remove(m, ".")),
              exp |-> (IF es = {} THEN 0 ELSE PyInt(x).v) - (Len(m) - dot)]
        ELSE [kind |-> "ValueError"]

\* float(value.replace('+', '')) if the text has an 'E' or a '.', None when
\* it has neither or float() raises
try_parse_float(value) ==
    IF \E k \in DOMAIN value : value[k] \in { "E", "." }
    THEN LET f == PyFloat(Remove(value, "+"))
         IN  IF f.kind = "ValueError" THEN [kind |-> "None"] ELSE f
    ELSE [kind |-> "None"]

\* The pattern [+-]?\d+(?:\.\d+)?(?:e[+-]?\d+)?, case ignored, on the whole
\* part.
FloatPattern(p) ==
    LET es == { k \in DOMAIN p : p[k] = "E" }
        e == IF es = {} THEN Len(p) + 1 ELSE CHOOSE k \in es : TRUE
        m == Unsigned(SubSeq(p, 1, e - 1))
        dots == { k \in DOMAIN m : m[k] = "." }
        dot == IF dots = {} THEN Len(m) + 1 ELSE CHOOSE k \in dots : TRUE
    IN  /\ Cardinality(es) <= 1
        /\ Cardinality(dots) <= 1
        /\ IsDigit(SubSeq(m, 1, dot - 1))
        /\ (dots # {} => IsDigit(SubSeq(m, dot + 1, Len(m))))
        /\ (es # {} => IsIntLiteral(SubSeq(p, e + 1, Len(p))))

\* The value texts have no blank: value.split() is one part, or none when
\* the text is empty, and a single float is returned as a number.
try_parse_float_list(value) ==
    IF value = << >> THEN [kind |-> "list", v |-> << >>]
    ELSE IF FloatPattern(value)
         THEN LET f == PyFloat(Remove(value, "+"))
              IN  IF f.kind = "ValueError" THEN [kind |-> "None"] ELSE f
         ELSE [kind |-> "None"]

\* The pattern \d{2}-[A-Z]{3}-\d{4}... needs three letters in a row.
try_parse_datetime(value) ==
    IF \E k \in 1..(Len(value) - 2) : \A j \in k..(k + 2) : value[j] = "E"
    THEN [kind |-> "datetime"] ELSE [kind |-> "None"]

\* The pattern [+-]\d{10}$ matched from the start: the value over 1e7.
try_parse_latlong(value) ==
    IF Len(value) = 11 /\ value[1] \in { "+", "-" } /\ IsDigit(Tail(value))
    THEN [kind |-> "float", mant |-> SignOf(value) * DigitsValue(Tail(value)), exp |-> -7]
    ELSE [kind |-> "None"]

\* bool(v) of Python
Truthy(v) ==
    CASE v.kind = "None" -> FALSE
      [] v.kind = "int" -> v.v # 0
      [] v.kind = "float" -> v.mant # 0
      [] v.kind = "list" -> v.v # << >>
      [] OTHER -> TRUE

\* a or b
PyOr(a, b) == IF Truthy(a) THEN a ELSE b

\* parsed if parsed is not None else value
ParsedOrText(parsed, value) ==
    IF parsed.kind = "None" THEN [kind |-> "str", v |-> value] ELSE parsed

\* What the three processors store for a stripped value text of a key that
\* is neither a time nor a flag.
Coerce(fn, value) ==
    CASE fn = "process_sph_metadata" ->
             ParsedOrText(PyOr(try_parse_datetime(value),
                          PyOr(try_parse_float(value),
                          PyOr(try_parse_latlong(value), try_parse_int(value)))), value)
      [] fn = "process_general_main_processing_params" ->
             ParsedOrText(PyOr(try_parse_float(value), try_parse_int(value)), value)
      [] OTHER ->
             ParsedOrText(PyOr(try_parse_float_list(value),
                          PyOr(try_parse_float(value), try_parse_int(value))), value)

Coercers ==
    { "process_sph_metadata", "process_general_main_processing_params",
      "process_measurement_sq_metadata" }

InitParse ==
    /\ \E fn \in Coercers \cup { "try_parse_int" } : \E value \in UNION { [1..len -> Chars] : len \in 0..MaxStr } :
           call = [fn |-> fn, value |-> value]
    /\ pc = "parse"
    /\ returned = << >>
    /\ IdleInputs
    /\ FreshLocals

\* A call of try_parse_int.
ParseInt ==
    /\ pc = "parse"
    /\ call.fn = "try_parse_int"
    /\ returned' = << try_parse_int(call.value) >>
    /\ pc' = "done"
    /\ UNCHANGED << inputs, call, dsd_start, i, ads_seen, metadata, lats, lons,
                    slant_time_first, antenna_gains, n, gain_list,
                    spreading_loss, lut_reads, err, result >>

\* One item of a processor's loop: the value stored under the key.
CoerceValue ==
    /\ pc = "parse"
    /\ call.fn \in Coercers
    /\ returned' = << Coerce(call.fn, call.value) >>
    /\ pc' = "done"
    /\ UNCHANGED << inputs, call, dsd_start, i, ads_seen, metadata, lats, lons,
                    slant_time_first, antenna_gains, n, gain_list,
                    spreading_loss, lut_reads, err, result >>

SpecParse == InitParse /\ [][ParseInt \/ CoerceValue]_vars

\* C23: try_parse_int never raises: an integer literal gives its integer
\* and every other text gives None.
C23_IntNeverRaises ==
    (call.fn = "try_parse_int" /\ pc = "done") =>
        /\ returned[1].kind # "ValueError"
        /\ IsIntLiteral(call.value) => returned[1] = PyInt(call.value)
        /\ ~IsIntLiteral(call.value) => returned[1].kind = "None"

\* C28: in the three processors every text the float parser accepts is
\* stored as a float, whatever its value.
C28_FloatStoredAsFloat ==
    (call.fn \in Coercers /\ pc = "done") =>
        (try_parse_float(call.value).kind = "float" => returned[1].kind = "float")

(* ------------------------------------------------------------------ *)
(* Orbit data read by the calibration (envisat_direct.py:333-349)      *)
(* ------------------------------------------------------------------ *)

\* Orbit data that differ from osv in everything but the position of the
\* first state vector: velocity and time fields on the first vector and
\* further vectors at other positions.
OtherOrbit(osv) ==
    LET first == [state_vect_time_1 |-> 1, x_vel_1 |-> 7000,
                  y_vel_1 |-> -3, z_vel_1 |-> 5] @@ osv[1]
        other == [x_pos_1 |-> 100, y_pos_1 |-> 700, z_pos_1 |-> -200]
    IN  << first, other, osv[1], other >>

\* the position of the first state vector differs too
CallWithOtherOrbit_moved ==
    /\ pc = "done"
    /\ call.nth = 1
    /\ Len(gdal_metadata.orbit_state_vectors) > 0
    /\ gdal_metadata' =
           [gdal_metadata EXCEPT !.orbit_state_vectors =
                << [@[1] EXCEPT !.z_pos_1 = 1400 - @] >> \o Tail(OtherOrbit(@))]
    /\ returned' = Append(returned, result)
    /\ call' = [call EXCEPT !.nth = 2]
    /\ pc' = "header"
    /\ dsd_start' = 0
    /\ i' = 0
    /\ ads_seen' = << >>
    /\ metadata' = EmptyDict
    /\ lats' = << >>
    /\ lons' = << >>
    /\ slant_time_first' = 0
    /\ antenna_gains' = << 0 >>
    /\ n' = 0
    /\ gain_list' = << >>
    /\ spreading_loss' = << >>
    /\ lut_reads' = << >>
    /\ result' = EmptyDict
    /\ UNCHANGED << file, aux, polarization, err >>

\* parse_direct is called a second time on the same product with attributes
\* whose orbit data agree with those of the first call in the position of
\* the first state vector only.
CallWithOtherOrbit ==
    /\ pc = "done"
    /\ call.nth = 1
    /\ Len(gdal_metadata.orbit_state_vectors) > 0
    /\ gdal_metadata' =
           [gdal_metadata EXCEPT !.orbit_state_vectors = OtherOrbit(@)]
    /\ returned' = Append(returned, result)
    /\ call' = [call EXCEPT !.nth = 2]
    /\ pc' = "header"
    /\ dsd_start' = 0
    /\ i' = 0
    /\ ads_seen' = << >>
    /\ metadata' = EmptyDict
    /\ lats' = << >>
    /\ lons' = << >>
    /\ slant_time_first' = 0
    /\ antenna_gains' = << 0 >>
    /\ n' = 0
    /\ gain_list' = << >>
    /\ spreading_loss' = << >>
    /\ lut_reads' = << >>
    /\ result' = EmptyDict
    /\ UNCHANGED << file, aux, polarization, err >>

SpecOrbit == Init /\ [][Next \/ CallWithOtherOrbit]_vars

InAcosDomain(k) ==
    LawOfCosines(k).den # 0 /\ Abs(LawOfCosines(k).num) <= LawOfCosines(k).den

\* C25: the argument of the arc cosine is not clamped: every sample of a
\* complex product that got a gain had its argument in [-1, 1], so a sample
\* outside the domain ends the build, and a failed build returns no
\* calibration vector.
C25_NoDomainClamping ==
    call.fn = "parse_direct" =>
        /\ gdal_metadata.sample_type = "COMPLEX" =>
               \A k \in 0..(Len(gain_list) - 1) : InAcosDomain(k)
        /\ pc = "error" => "cal_vector" \notin DOMAIN result

\* the build failed in the gain loop on a sample whose argument exceeds 1
C25_Witness ==
    /\ call.fn = "parse_direct"
    /\ pc = "error"
    /\ err = "ValueError"
    /\ Len(ads_seen) = 18
    /\ GainOfSample(n).err = "ValueError"
    /\ ~InAcosDomain(n)
    /\ "cal_vector" \notin DOMAIN result

(* ------------------------------------------------------------------ *)
(* open_asar_dataset: product type and polarization (asar.py:64-97)    *)
(* ------------------------------------------------------------------ *)

\* "AP Mode" in product_str
IsApMode(product_str) ==
    product_str \in { "AP Mode SLC Image", "AP Mode Precision Image" }

\* The SPH descriptor is one of the four supported ones or another. An
\* alternating-polarization product carries two different polarizations,
\* any other product one, with a blank second field. The argument is a
\* polarization or None.
InitOpen ==
    /\ \E product_str \in { "Image Mode SLC Image", "AP Mode SLC Image",
                             "Image Mode Precision Image",
                             "AP Mode Precision Image", "Wide Swath Mode Image" },
          pol1 \in { "H/H", "V/V", "H/V", "V/H" },
          pol2 \in { "H/H", "V/V", "H/V", "V/H" } \cup { "" },
          arg \in { "H/H", "V/V", "H/V", "V/H" } \cup { "None" } :
           /\ IF IsApMode(product_str) THEN pol2 \notin { "", pol1 } ELSE pol2 = ""
           /\ call = [fn |-> "open_asar_dataset", polarization |-> arg]
           /\ metadata = [sph_descriptor |-> product_str, mds1_tx_rx_polar |-> pol1,
                          mds2_tx_rx_polar |-> pol2]
    /\ pc = "open"
    /\ returned = << >>
    /\ IdleInputs
    /\ dsd_start = 0 /\ i = 0 /\ ads_seen = << >> /\ lats = << >> /\ lons = << >>
    /\ slant_time_first = 0 /\ antenna_gains = << >> /\ n = 0 /\ gain_list = << >>
    /\ spreading_loss = << >> /\ lut_reads = << >> /\ err = NoError
    /\ result = EmptyDict

\* the index is left at 0 for either polarization
OpenResolve_first ==
    /\ pc = "open"
    /\ LET product_str == metadata.sph_descriptor
           pol1 == metadata.mds1_tx_rx_polar
           pol2 == metadata.mds2_tx_rx_polar
           arg == call.polarization
       IN  IF \/ product_str = "Wide Swath Mode Image"
              \/ IsApMode(product_str) /\ arg \notin { pol1, pol2 }
              \/ ~IsApMode(product_str) /\ arg \notin { "None", pol1 }
           THEN Raise("RuntimeError") /\ UNCHANGED << metadata, polarization >>
           ELSE /\ polarization' = IF arg = "None" THEN pol1 ELSE arg
                /\ metadata' = ("product_type" :> "SLC") @@ ("polarization_idx" :> 0)
                               @@ ("txrx_polarization" :> polarization') @@ metadata
                /\ pc' = "direct"
                /\ UNCHANGED err
    /\ UNCHANGED << file, aux, gdal_metadata, others, dsd_start, i, ads_seen, lats,
                    lons, slant_time_first, antenna_gains, n, gain_list,
                    spreading_loss, lut_reads, result >>

\* Lines 64-93: the product type, the polarization index and the
\* polarization handed on, or RuntimeError.
OpenResolve ==
    /\ pc = "open"
    /\ LET product_str == metadata.sph_descriptor
           pol1 == metadata.mds1_tx_rx_polar
           pol2 == metadata.mds2_tx_rx_polar
           arg == call.polarization
           product_type ==
               IF product_str \in { "Image Mode SLC Image", "AP Mode SLC Image" }
               THEN "SLC" ELSE "GRD"
       IN  IF product_str \notin { "Image Mode SLC Image", "AP Mode SLC Image",
                                   "Image Mode Precision Image",
                                   "AP Mode Precision Image" }
           THEN Raise("RuntimeError") /\ UNCHANGED << metadata, polarization >>
           ELSE IF IsApMode(product_str)
           THEN IF arg = "None"
                THEN Raise("RuntimeError") /\ UNCHANGED << metadata, polarization >>
                ELSE IF arg = pol1 \/ arg = pol2
                THEN /\ polarization' = arg
                     /\ metadata' = ("product_type" :> product_type)
                                    @@ ("polarization_idx" :> IF arg = pol1 THEN 0 ELSE 1)
                                    @@ ("txrx_polarization" :> arg) @@ metadata
                     /\ pc' = "direct"
                     /\ UNCHANGED err
                ELSE Raise("RuntimeError") /\ UNCHANGED << metadata, polarization >>
           ELSE IF arg # "None" /\ arg # pol1
           THEN Raise("RuntimeError") /\ UNCHANGED << metadata, polarization >>
           ELSE /\ polarization' = pol1
                /\ metadata' = ("product_type" :> product_type)
                               @@ ("polarization_idx" :> 0)
                               @@ ("txrx_polarization" :> pol1) @@ metadata
                /\ pc' = "direct"
                /\ UNCHANGED err
    /\ UNCHANGED << file, aux, gdal_metadata, others, dsd_start, i, ads_seen, lats,
                    lons, slant_time_first, antenna_gains, n, gain_list,
                    spreading_loss, lut_reads, result >>

\* Lines 95-99: parse_direct is called with the resolved polarization; it
\* returns its dictionary, stored under direct_parse, or raises one of its
\* exceptions.
OpenDirectParse ==
    /\ pc = "direct"
    /\ \/ /\ metadata' = ("direct_parse" :> "parsed") @@ metadata
          /\ pc' = "done"
          /\ UNCHANGED err
       \/ \E e \in { "ValueError", "IndexError", "KeyError", "ZeroDivisionError",
                      "AssertionError" } :
              Raise(e) /\ UNCHANGED metadata
    /\ UNCHANGED << inputs, others, dsd_start, i, ads_seen, lats, lons,
                    slant_time_first, antenna_gains, n, gain_list,
                    spreading_loss, lut_reads, result >>

SpecOpen == InitOpen /\ [][OpenResolve \/ OpenDirectParse]_vars

\* C26: direct parsing starts only with a resolved polarization. For an AP
\* Mode product the argument is one of the two MDS polarizations and the
\* index is 0 for the first and 1 for the second; for another product the
\* argument is missing or the MDS1 polarization and the index is 0. In both
\* cases txrx_polarization, the polarization parsed with, is the one at the
\* index. Every other call ends in RuntimeError with nothing parsed.
C26_PolarizationResolvedFirst ==
    call.fn = "open_asar_dataset" =>
        LET pol1 == metadata.mds1_tx_rx_polar
            pol2 == metadata.mds2_tx_rx_polar
            arg == call.polarization
            ap == IsApMode(metadata.sph_descriptor)
            valid == /\ metadata.sph_descriptor # "Wide Swath Mode Image"
                     /\ IF ap THEN arg \in { pol1, pol2 } ELSE arg \in { "None", pol1 }
        IN  /\ (pc = "error" /\ err = "RuntimeError") <=> (pc # "open" /\ ~valid)
            /\ pc = "error" /\ err = "RuntimeError" =>
                   DOMAIN metadata = { "sph_descriptor", "mds1_tx_rx_polar",
                                       "mds2_tx_rx_polar" }
            /\ "direct_parse" \in DOMAIN metadata => pc = "done"
            /\ "txrx_polarization" \in DOMAIN metadata =>
                   /\ metadata.polarization_idx
                          = (IF ap /\ arg = pol2 THEN 1 ELSE 0)
                   /\ metadata.txrx_polarization
                          = << pol1, pol2 >>[metadata.polarization_idx + 1]
                   /\ polarization = metadata.txrx_polarization
                   /\ ~ap /\ arg = "None" => metadata.txrx_polarization = pol1
                   /\ arg # "None" => metadata.txrx_polarization = arg

\* an AP Mode product opened with its second polarization was parsed
C26_Witness ==
    /\ call.fn = "open_asar_dataset"
    /\ pc = "done"
    /\ IsApMode(metadata.sph_descriptor)
    /\ call.polarization = metadata.mds2_tx_rx_polar
    /\ metadata.polarization_idx = 1
    /\ "direct_parse" \in DOMAIN metadata

(* ------------------------------------------------------------------ *)
(* Tie-point index of the interpolation (envisat_direct.py:339-347)    *)
(* ------------------------------------------------------------------ *)

\* Largest number of samples of a line in the tie-point runs.
MaxTieSamp == 12

\* The loop over the samples begins: the tie sequence has the 11 points of a
\* geolocation grid record, ascending or descending, and the line has N >= 1
\* samples.
InitTie ==
    /\ \E N \in 1..MaxTieSamp, dir \in { -1, 1 } :
           /\ gdal_metadata = [line_length |-> N]
           /\ lats = [k \in 1..11 |-> [mant |-> 500 + dir * 10 * k, exp |-> -1]]
    /\ lons = lats
    /\ call = [fn |-> "interpolate_tie_points"]
    /\ pc = "tie"
    /\ returned = << >>
    /\ file = [mph_index |-> sph_marker_offset, sph_size |-> 6099, layout |-> "std",
               geo |-> [present |-> FALSE, size |-> 0, num |-> 0],
               srgr |-> [present |-> TRUE, size |-> 0, num |-> 0],
               cal |-> [present |-> FALSE, filename |-> "", pad |-> 62]]
    /\ aux = [names |-> {AuxName}, ref |-> 6000]
    /\ polarization = "H/H"
    /\ dsd_start = 0 /\ i = 0 /\ ads_seen = << >> /\ metadata = EmptyDict
    /\ slant_time_first = 0 /\ antenna_gains = << 0 >> /\ n = 0
    /\ gain_list = << >> /\ spreading_loss = << >> /\ lut_reads = << >>
    /\ err = NoError /\ result = EmptyDict

\* Lines 343-347 for sample n: the lower tie index and the two tie points
\* read, lats[idx] and lats[idx + 1], or IndexError.
TieStep ==
    /\ pc = "tie"
    /\ n < gdal_metadata.line_length
    /\ LET idx == TieIndex(n, gdal_metadata.line_length, Len(lats))
       IN  IF idx + 1 \in DOMAIN lats /\ idx + 2 \in DOMAIN lats
           THEN /\ returned' = Append(returned, [n |-> n, idx |-> idx,
                                                 read |-> << lats[idx + 1], lats[idx + 2] >>])
                /\ n' = n + 1
                /\ pc' = IF n + 1 = gdal_metadata.line_length THEN "done" ELSE "tie"
                /\ UNCHANGED err
           ELSE /\ Raise("IndexError")
                /\ UNCHANGED << returned, n >>
    /\ UNCHANGED << inputs, call, dsd_start, i, ads_seen, metadata, lats, lons,
                    slant_time_first, antenna_gains, gain_list, spreading_loss,
                    lut_reads, result >>

SpecTie == InitTie /\ [][TieStep]_vars

\* C27: with 11 tie points and N >= 1 samples, the lower tie index of every
\* sample n in 0..N-1 is floor(10 n / N), lies in 0..9, and both tie points
\* it names are read: the interpolation never fails with IndexError.
C27_TieIndexInRange ==
    call.fn = "interpolate_tie_points" =>
        /\ pc # "error"
        /\ \A k \in DOMAIN returned :
               /\ returned[k].idx = (10 * returned[k].n) \div gdal_metadata.line_length
               /\ returned[k].idx \in 0..9
               /\ returned[k].read = << lats[returned[k].idx + 1],
                                        lats[returned[k].idx + 2] >>

\* the last sample of a line of 12 samples used tie points 9 and 10
C27_Witness ==
    /\ call.fn = "interpolate_tie_points"
    /\ pc = "done"
    /\ gdal_metadata.line_length = 12
    /\ Len(returned) = 12
    /\ returned[12].idx = 9

(* ------------------------------------------------------------------ *)
(* process_main_processing_params (records_metadata.py:36-71, 409-454) *)
(* ------------------------------------------------------------------ *)

\* The eleven categories: the words of the prefix behind
\* 'MAIN_PROCESSING_PARAMS_ADS_', whether the processor collects by index,
\* and what the exclude pattern of the general processor has in front of
\* these words ('ads_' for the start time, 's_' for the last three).
MppCategories ==
    [ raw_data_analysis |-> [words |-> << "RAW", "DATA", "ANALYSIS" >>, indexed |-> TRUE, lead |-> ""],
      image_parameters |-> [words |-> << "IMAGE", "PARAMETERS" >>, indexed |-> FALSE, lead |-> ""],
      bandwidth |-> [words |-> << "BANDWIDTH" >>, indexed |-> FALSE, lead |-> ""],
      nominal_chirp |-> [words |-> << "NOMINAL", "CHIRP" >>, indexed |-> TRUE, lead |-> ""],
      calibration_factors |-> [words |-> << "CALIBRATION", "FACTORS" >>, indexed |-> TRUE, lead |-> ""],
      output_statistics |-> [words |-> << "OUTPUT", "STATISTICS" >>, indexed |-> TRUE, lead |-> ""],
      orbit_state_vectors |-> [words |-> << "ORBIT", "STATE", "VECTORS" >>, indexed |-> TRUE, lead |-> ""],
      start_time |-> [words |-> << "START", "TIME" >>, indexed |-> TRUE, lead |-> "ADS"],
      parameter_codes |-> [words |-> << "PARAMETER", "CODES" >>, indexed |-> FALSE, lead |-> "S"],
      error_counters |-> [words |-> << "ERROR", "COUNTERS" >>, indexed |-> FALSE, lead |-> "S"],
      noise_estimation |-> [words |-> << "NOISE", "ESTIMATION" >>, indexed |-> FALSE, lead |-> "S"] ]

\* key.startswith('MAIN_PROCESSING_PARAMS_ADS_<CATEGORY>'), for a key given
\* by the words between the prefix 'MAIN_PROCESSING_PARAMS_ADS_' and the
\* first dot and by the parts behind the dots.
StartsWith(key, cat) ==
    /\ Len(key.words) >= Len(MppCategories[cat].words)
    /\ SubSeq(key.words, 1, Len(MppCategories[cat].words)) = MppCategories[cat].words

\* no key is excluded from the general parameters
Excluded_none(key) == FALSE

\* any(pattern in key.lower() for pattern in exclude_patterns): the words of
\* a category anywhere in the key, behind 'ads_' or a word ending in 's'
\* where the pattern says so (the prefix itself ends in 'ADS_').
Excluded(key) ==
    \E cat \in DOMAIN MppCategories :
        \E p \in 1..(Len(key.words) - Len(MppCategories[cat].words) + 1) :
            /\ SubSeq(key.words, p, p + Len(MppCategories[cat].words) - 1)
                   = MppCategories[cat].words
            /\ \/ p = 1
               \/ MppCategories[cat].lead = ""
               \/ MppCategories[cat].lead = "ADS" /\ key.words[p - 1] = "ADS"
               \/ MppCategories[cat].lead = "S" /\ key.words[p - 1] \in { "ADS", "PARAMS" }

\* The dictionary by index that the loop of the processor of category cat
\* leaves after the first k items.
RECURSIVE IndexedDict(_, _, _)
IndexedDict(cat, items, k) ==
    IF k = 0 THEN EmptyDict
    ELSE IndexedPut(IndexedDict(cat, items, k - 1), cat,
                    [key |-> [prefix |-> IF StartsWith(items[k].key, cat) THEN cat ELSE "",
                              parts |-> items[k].key.parts],
                     value |-> items[k].value])

\* The parameters returned: under "general" the names key[27:].lower() (the
\* words and parts of the key) of the keys not excluded, and for each
\* category the output of its processor: the list by index, or the names
\* key.split('.')[-1].lower() of the keys with its prefix.
process_main_processing_params(items) ==
    [p \in { "general" } \cup DOMAIN MppCategories |->
        IF p = "general"
        THEN { << items[k].key.words, items[k].key.parts >> :
                 k \in { x \in DOMAIN items : ~Excluded(items[x].key) } }
        ELSE IF MppCategories[p].indexed
        THEN IndexedList(IndexedDict(p, items, Len(items)), p)
        ELSE { IF items[k].key.parts = << >> THEN "" ELSE
                   Lower[items[k].key.parts[Len(items[k].key.parts)]] :
                 k \in { x \in DOMAIN items : StartsWith(items[x].key, p) } }]

\* The metadata: up to two different keys out of one well-formed key of
\* each category, general keys (one with the words of a category inside,
\* one with START_TIME not behind ADS), and a key of an indexed category
\* with two parts; the nominal chirp value is 0, 1 or 2, the others are 1.
InitMpp ==
    /\ LET wellformed ==
               { [words |-> MppCategories[cat].words,
                  parts |-> IF cat \in DOMAIN IndexedGroups
                            THEN << 1, IndexedGroups[cat][1] >> ELSE << "X" >>]
                 : cat \in DOMAIN MppCategories }
           pool == wellformed \cup
               { [words |-> << "DETECTED", "FLAG" >>, parts |-> << >>],
                 [words |-> << "TOT", "BANDWIDTH" >>, parts |-> << >>],
                 [words |-> << "LINE", "START", "TIME" >>, parts |-> << >>],
                 [words |-> << "RAW", "DATA", "ANALYSIS" >>, parts |-> << "X" >>] }
           texts(key) == IF key.words = << "NOMINAL", "CHIRP" >>
                         THEN { << 0 >>, << 1 >>, << 2 >> } ELSE { << 1 >> }
       IN  \E a \in pool, b \in pool, len \in 0..2 :
               \E va \in texts(a), vb \in texts(b) :
                   /\ a # b
                   /\ call = [fn |-> "process_main_processing_params",
                              items |-> SubSeq(<< [key |-> a, value |-> va],
                                                  [key |-> b, value |-> vb] >>, 1, len)]
    /\ pc = "call"
    /\ returned = << >>
    /\ IdleInputs
    /\ FreshLocals

\* The call: the general processor and the eleven category processors.
MppCall ==
    /\ pc = "call"
    /\ returned' = << process_main_processing_params(call.items) >>
    /\ pc' = "done"
    /\ UNCHANGED << inputs, call, dsd_start, i, ads_seen, metadata, lats, lons,
                    slant_time_first, antenna_gains, n, gain_list,
                    spreading_loss, lut_reads, err, result >>

SpecMpp == InitMpp /\ [][MppCall]_vars

\* The output of processor p has an entry for the key.
AppearsIn(p, key) ==
    LET out == returned[1][p]
    IN  IF p = "general" THEN << key.words, key.parts >> \in out
        ELSE /\ StartsWith(key, p)
             /\ IF MppCategories[p].indexed
                THEN /\ Len(key.parts) = 2
                     /\ \E a \in DOMAIN out :
                            /\ out[a]["index"] = key.parts[1]
                            /\ Lower[key.parts[2]] \in DOMAIN out[a]
                ELSE key.parts # << >> /\ Lower[key.parts[Len(key.parts)]] \in out

MppDone == call.fn = "process_main_processing_params" /\ pc = "done"

MaxWssLines == 3

\* The measurement data set of the chosen subswath: each line has its time
\* stamp and two samples. The main processing parameters were read before.
InitWss ==
    /\ \E len \in 0..MaxWssLines :
           \E lines \in [1..len -> [ts : 1..3,
                                    data : { << 1, -1 >>, << -3, 1 >>, << 0, 5 >> }]] :
               call = [fn |-> "parse_wss", lines |-> lines]
    /\ metadata = ("direct_parse" :> [cal_factor |-> 77])
    /\ result = EmptyDict
    /\ pc = "read"
    /\ returned = << >>
    /\ IdleInputs
    /\ dsd_start = 0 /\ i = 0 /\ ads_seen = << >> /\ lats = << >> /\ lons = << >>
    /\ slant_time_first = 0 /\ antenna_gains = << >> /\ n = 0 /\ gain_list = << >>
    /\ spreading_loss = << >> /\ lut_reads = << >> /\ err = NoError

\* Lines 221-250: line_sz = int(ads.size / ads.num), the lines are read and
\* sorted by time (list.sort is stable), and the locals of the loop are set.
WssSort ==
    /\ pc = "read"
    /\ LET lines == call.lines
           order == CHOOSE o \in [DOMAIN lines -> DOMAIN lines] :
                        /\ \A a, b \in DOMAIN lines : a # b => o[a] # o[b]
                        /\ \A a, b \in DOMAIN lines :
                               a < b => \/ lines[o[a]].ts < lines[o[b]].ts
                                        \/ /\ lines[o[a]].ts = lines[o[b]].ts
                                           /\ o[a] < o[b]
       IN  IF Len(lines) = 0
           THEN Raise("ZeroDivisionError") /\ UNCHANGED result
           ELSE /\ result' = [data_time_arr |-> [k \in DOMAIN lines |-> lines[order[k]]],
                              cnt |-> 0, dup |-> 0, prev |-> 0, max_idx |-> 0,
                              max_val |-> 0, final_dat |-> << >>]
                /\ pc' = "loop"
                /\ UNCHANGED err
    /\ UNCHANGED << inputs, others, dsd_start, i, ads_seen, metadata, lats, lons,
                    slant_time_first, antenna_gains, n, gain_list,
                    spreading_loss, lut_reads >>

\* Lines 252-264: one iteration of for i in range(len(data_time_arr) - 1).
WssStep ==
    /\ pc = "loop"
    /\ i < Len(result.data_time_arr) - 1
    /\ LET line == result.data_time_arr[i + 1]
           sum_tmp == Abs(line.data[1]) + Abs(line.data[2])
       IN  result' =
               IF line.ts # result.prev
               THEN [result EXCEPT
                        !.final_dat = IF i # 0
                                      THEN Append(@, result.data_time_arr[result.max_idx + 1].data)
                                      ELSE @,
                        !.max_val = sum_tmp, !.max_idx = i, !.cnt = @ + 1,
                        !.prev = line.ts]
               ELSE [result EXCEPT
                        !.max_idx = IF sum_tmp > result.max_val THEN i ELSE @,
                        !.max_val = IF sum_tmp > result.max_val THEN sum_tmp ELSE @,
                        !.dup = @ + 1, !.prev = line.ts]
    /\ i' = i + 1
    /\ UNCHANGED << inputs, others, pc, dsd_start, ads_seen, metadata, lats, lons,
                    slant_time_first, antenna_gains, n, gain_list,
                    spreading_loss, lut_reads, err >>

\* Lines 267-278: the metadata of the lines, the all-ones calibration
\* vector, and the return of metadata and final_dat.
WssReturn ==
    /\ pc = "loop"
    /\ i >= Len(result.data_time_arr) - 1
    /\ LET arr == result.data_time_arr
           md == ("first_line_time" :> arr[1].ts) @@ ("last_line_time" :> arr[Len(arr)].ts)
                 @@ ("line_length" :> Len(arr[1].data))
                 @@ ("num_output_lines" :> Len(result.final_dat))
                 @@ ("direct_parse" :> [cal_factor |-> metadata["direct_parse"].cal_factor,
                                        cal_vector |-> Ones(Len(arr[1].data))])
                 @@ metadata
       IN  /\ metadata' = md
           /\ returned' = << [metadata |-> md, final_dat |-> result.final_dat] >>
    /\ pc' = "done"
    /\ UNCHANGED << inputs, call, dsd_start, i, ads_seen, lats, lons,
                    slant_time_first, antenna_gains, n, gain_list,
                    spreading_loss, lut_reads, err, result >>

SpecWss == InitWss /\ [][WssSort \/ WssStep \/ WssReturn]_vars

\* The samples of the line of time stamp ts with the largest sum of absolute
\* sample values.
StrongestLine(ts) ==
    LET at == { k \in DOMAIN call.lines : call.lines[k].ts = ts }
        sum(k) == Abs(call.lines[k].data[1]) + Abs(call.lines[k].data[2])
    IN  call.lines[CHOOSE k \in at : \A j \in at : sum(j) <= sum(k)].data

\* C30: parse_wss returns one line per distinct time stamp, in ascending
\* order of time, each the line with the largest sum of absolute sample
\* values of its time stamp, the last time stamp included, and
\* num_output_lines is the number of distinct time stamps.
C30_OneLinePerTimestamp ==
    (call.fn = "parse_wss" /\ pc = "done") =>
        LET stamps == { call.lines[k].ts : k \in DOMAIN call.lines }
            out == returned[1].final_dat
        IN  /\ Len(out) = Cardinality(stamps)
            /\ returned[1].metadata["num_output_lines"] = Cardinality(stamps)
            /\ \A j \in DOMAIN out : out[j] = StrongestLine(Sorted(stamps)[j])

============================================================================
